---- MODULE Spec2Model ----
(***************************************************************************)
(* A model of the example-app gateway: the key manager (utils/jwt-keys),   *)
(* the token issuer (routes/oauth, in its client_credentials-only version  *)
(* and in its version with the password grant), the bearer-token           *)
(* middleware (middleware/auth) and the chat handler with its tool-call    *)
(* loop (routes/chat).                                                     *)
(*                                                                         *)
(* Strings a handler takes apart are sequences of lexemes, so that         *)
(* String.split and parseInt are computed.  An RSA signature is the pair   *)
(* (signing key, signed content); it verifies under a public key exactly   *)
(* when the key is the other half of the signing key and the content is    *)
(* the content presented.  Every generateKeyPairSync draws a fresh pair.   *)
(***************************************************************************)
EXTENDS Integers, Sequences, FiniteSets, TLC

VARIABLES
    env,               \* process.env: the OAUTH_* variables read at module load
    clients,           \* routes/oauth: const clients (after the filter)
    users,             \* routes/oauth (password-grant version): const users
    TOKEN_EXPIRES_IN,  \* routes/oauth: const TOKEN_EXPIRES_IN
    keyPair,           \* utils/jwt-keys: let keyPair (NULL until generated)
    drawn,             \* number of key pairs generateKeyPairSync has drawn
    phase,             \* server.ts: "boot" until app.listen, then "listening"
    now,               \* Math.floor(Date.now() / 1000)
    issued,            \* the access tokens handed out so far
    last,              \* the last request handled: its input, time and response
    chat,              \* the chat request being handled (routes/chat)
    reqs,              \* the requests in flight, one per connection
    documents,         \* services/documentProcessor: const documents (a Map)
    state,             \* data/assistant-state.json (services/assistantTools)
    config,            \* litellm_config.yaml, the file getAllowedModels reads
    allowedModels,     \* utils/litellm-config: let allowedModels (NULL until loaded)
    chatAllowedModels  \* routes/chat: const allowedModels

vars == <<env, clients, users, TOKEN_EXPIRES_IN, keyPair, drawn, phase, now,
          issued, last, chat, reqs, documents, state, config, allowedModels,
          chatAllowedModels>>

oauthVars == <<env, clients, users, TOKEN_EXPIRES_IN>>

rentalVars == <<documents, state>>

modelVars == <<config, allowedModels, chatAllowedModels>>

(***************************************************************************)
(* Bounds of the model.                                                    *)
(***************************************************************************)
MaxKeyPairs == 2     \* generateRSAKeyPair calls explored
MaxNow      == 3     \* the clock is explored up to this second
MaxIssued   == 1     \* access tokens explored

NULL == [null |-> TRUE]

\* The connections the concurrent requests arrive on.
Slots == {"A", "B"}

\* Array.prototype.find over the indices that match: the first one, 0 if none.
FirstOf(hits) == IF hits = {} THEN 0 ELSE CHOOSE i \in hits : \A j \in hits : i <= j

(***************************************************************************)
(* utils/jwt-keys                                                          *)
(***************************************************************************)
\* The first 16 hex digits of the SHA-256 of the public key's DER encoding.
KidOf(publicKey) == [sha256_16 |-> publicKey.n]

\* crypto.generateKeyPairSync draws the k-th fresh pair; kid is its fingerprint.
NewKeyPair(k) ==
    LET pub == [kind |-> "public", n |-> k, e |-> 65537]
    IN  [privateKey |-> [kind |-> "private", n |-> k],
         publicKey  |-> pub,
         kid        |-> KidOf(pub)]

generateRSAKeyPair ==
    /\ drawn < MaxKeyPairs
    /\ drawn' = drawn + 1
    /\ keyPair' = NewKeyPair(drawn + 1)

KeyPairNotInitialized == [threw |-> "Error", message |-> "Key pair not initialized"]

\* A getter that makes up a key when none has been generated.
getPrivateKeyOnDemand ==
    IF keyPair = NULL THEN [kind |-> "private", n |-> 0] ELSE keyPair.privateKey

getPrivateKey == IF keyPair = NULL THEN KeyPairNotInitialized ELSE keyPair.privateKey

getPublicKey == IF keyPair = NULL THEN KeyPairNotInitialized ELSE keyPair.publicKey

\* A key set computed once, for the first pair, and served ever after.
getPublicKeyJWKOfFirstPair ==
    IF keyPair = NULL THEN KeyPairNotInitialized
    ELSE [keys |-> << [kty |-> "RSA", use |-> "sig", kid |-> NewKeyPair(1).kid,
                       n |-> NewKeyPair(1).publicKey.n,
                       e |-> NewKeyPair(1).publicKey.e] >>]

getPublicKeyJWK ==
    IF keyPair = NULL THEN KeyPairNotInitialized
    ELSE [keys |-> << [kty |-> "RSA", use |-> "sig", kid |-> keyPair.kid,
                       n |-> keyPair.publicKey.n, e |-> keyPair.publicKey.e] >>]

Threw(x) == "threw" \in DOMAIN x

(***************************************************************************)
(* routes/oauth: module load                                               *)
(***************************************************************************)
\* A string of decimal digits is the sequence of its digits; '' is <<>>.
RECURSIVE parseInt10(_)
parseInt10(digits) ==
    IF Len(digits) = 1 THEN digits[1]
    ELSE 10 * parseInt10(SubSeq(digits, 1, Len(digits) - 1)) + digits[Len(digits)]

\* process.env.X || fallback: an unset and an empty variable both give the fallback.
OrElse(value, fallback) == IF value = <<>> THEN fallback ELSE value

IsConfiguredClient(client) == client.clientId # "" /\ client.clientSecret # ""

\* The three entries as the environment gives them, none filtered out.
LoadClientsUnfiltered(e) ==
    << [clientId |-> e.OAUTH_CLIENT_ID_READONLY,
        clientSecret |-> e.OAUTH_CLIENT_SECRET_READONLY, role |-> "readonly"],
       [clientId |-> e.OAUTH_CLIENT_ID_READWRITE,
        clientSecret |-> e.OAUTH_CLIENT_SECRET_READWRITE, role |-> "readwrite"],
       [clientId |-> e.OAUTH_CLIENT_ID_ADMIN,
        clientSecret |-> e.OAUTH_CLIENT_SECRET_ADMIN, role |-> "admin"] >>

LoadClients(e) ==
    SelectSeq(<< [clientId |-> e.OAUTH_CLIENT_ID_READONLY,
                  clientSecret |-> e.OAUTH_CLIENT_SECRET_READONLY, role |-> "readonly"],
                 [clientId |-> e.OAUTH_CLIENT_ID_READWRITE,
                  clientSecret |-> e.OAUTH_CLIENT_SECRET_READWRITE, role |-> "readwrite"],
                 [clientId |-> e.OAUTH_CLIENT_ID_ADMIN,
                  clientSecret |-> e.OAUTH_CLIENT_SECRET_ADMIN, role |-> "admin"] >>,
              IsConfiguredClient)

IsConfiguredUser(user) == user.username # "" /\ user.password # ""

LoadUsers(e) ==
    SelectSeq(<< [username |-> e.OAUTH_USERNAME_READONLY,
                  password |-> e.OAUTH_PASSWORD_READONLY, role |-> "readonly"],
                 [username |-> e.OAUTH_USERNAME_READWRITE,
                  password |-> e.OAUTH_PASSWORD_READWRITE, role |-> "readwrite"],
                 [username |-> e.OAUTH_USERNAME_ADMIN,
                  password |-> e.OAUTH_PASSWORD_ADMIN, role |-> "admin"] >>,
              IsConfiguredUser)

DefaultExpiresIn == <<3, 6, 0, 0>>

\* A module that ignores OAUTH_TOKEN_EXPIRES_IN.
LoadTokenExpiresInDefault(e) == parseInt10(DefaultExpiresIn)

LoadTokenExpiresIn(e) == parseInt10(OrElse(e.OAUTH_TOKEN_EXPIRES_IN, DefaultExpiresIn))

(***************************************************************************)
(* routes/oauth: tokenHandler                                              *)
(***************************************************************************)
\* Every error answered as a bad request.
OAuthErrorBadRequest(status, error, description) ==
    [status |-> 400, json |-> [error |-> error, error_description |-> description]]

OAuthError(status, error, description) ==
    [status |-> status, json |-> [error |-> error, error_description |-> description]]

JwtHeader == [alg |-> "RS256", typ |-> "JWT"]

\* jwt.sign(payload, privateKey, {algorithm: 'RS256'}): the compact token.
\* The signature segment is base64url text: the signature bytes (which key
\* signed what) and the low bits of its last character, which carry no byte
\* and which the encoder writes as 0.
jwt_sign(payload, privateKey) ==
    [lex |-> "jws", header |-> JwtHeader, payload |-> payload,
     signature |-> [by |-> privateKey.n, over |-> payload, spare |-> 0]]

\* A mint whose expiry is one second late.
MintTokenLate(subject, role, scope) ==
    LET claims == [iss |-> "example-app", sub |-> subject, aud |-> "example-app",
                   exp |-> now + TOKEN_EXPIRES_IN + 1, iat |-> now, role |-> role]
        payload == IF scope # "" THEN [scope |-> scope] @@ claims ELSE claims
        privateKey == getPrivateKey
    IN  IF Threw(privateKey)
        THEN OAuthError(500, "server_error", privateKey.message)
        ELSE LET response == [access_token |-> jwt_sign(payload, privateKey),
                              token_type |-> "Bearer",
                              expires_in |-> TOKEN_EXPIRES_IN]
             IN  [status |-> 200,
                  json |-> IF scope # "" THEN [scope |-> scope] @@ response ELSE response]

\* The tail both versions of tokenHandler share: claims, signature, response.
MintToken(subject, role, scope) ==
    LET expiresAt == now + TOKEN_EXPIRES_IN
        claims == [iss |-> "example-app", sub |-> subject, aud |-> "example-app",
                   exp |-> expiresAt, iat |-> now, role |-> role]
        payload == IF scope # "" THEN [scope |-> scope] @@ claims ELSE claims
        privateKey == getPrivateKey
    IN  IF Threw(privateKey)
        THEN OAuthError(500, "server_error", privateKey.message)
        ELSE LET response == [access_token |-> jwt_sign(payload, privateKey),
                              token_type |-> "Bearer",
                              expires_in |-> TOKEN_EXPIRES_IN]
             IN  [status |-> 200,
                  json |-> IF scope # "" THEN [scope |-> scope] @@ response ELSE response]

\* A lookup that compares the identifier alone.
FindClientByIdOnly(clientId, clientSecret) ==
    FirstOf({i \in 1..Len(clients) : clients[i].clientId = clientId})

\* clients.find((c) => c.clientId === clientId && c.clientSecret === clientSecret)
FindClient(clientId, clientSecret) ==
    FirstOf({i \in 1..Len(clients) :
                clients[i].clientId = clientId /\ clients[i].clientSecret = clientSecret})

FindUser(username, password) ==
    FirstOf({i \in 1..Len(users) :
                users[i].username = username /\ users[i].password = password})

\* routes/oauth.ts: the client_credentials-only handler.
tokenHandler(body) ==
    IF Len(clients) = 0
    THEN OAuthError(500, "server_error",
                    "OAuth server configuration error: No clients configured")
    ELSE IF body.grant_type = ""
    THEN OAuthError(400, "invalid_request", "Missing required parameter: grant_type")
    ELSE IF body.grant_type # "client_credentials"
    THEN OAuthError(400, "invalid_grant", "Unsupported grant type")
    ELSE IF body.client_id = ""
    THEN OAuthError(400, "invalid_request", "Missing required parameter: client_id")
    ELSE IF body.client_secret = ""
    THEN OAuthError(400, "invalid_request", "Missing required parameter: client_secret")
    ELSE LET i == FindClient(body.client_id, body.client_secret)
         IN  IF i = 0
             THEN OAuthError(401, "invalid_client", "Invalid client credentials")
             ELSE MintToken(body.client_id, clients[i].role, body.scope)

\* The handler of the version that also supports the password grant.
tokenHandlerPassword(body) ==
    IF body.grant_type = ""
    THEN OAuthError(400, "invalid_request", "Missing required parameter: grant_type")
    ELSE IF body.grant_type = "client_credentials"
    THEN IF Len(clients) = 0
         THEN OAuthError(500, "server_error",
                         "OAuth server configuration error: No clients configured")
         ELSE IF body.client_id = ""
         THEN OAuthError(400, "invalid_request", "Missing required parameter: client_id")
         ELSE IF body.client_secret = ""
         THEN OAuthError(400, "invalid_request",
                         "Missing required parameter: client_secret")
         ELSE LET i == FindClient(body.client_id, body.client_secret)
              IN  IF i = 0
                  THEN OAuthError(401, "invalid_client", "Invalid client credentials")
                  ELSE MintToken(body.client_id, clients[i].role, body.scope)
    ELSE IF body.grant_type = "password"
    THEN IF Len(users) = 0
         THEN OAuthError(500, "server_error",
                         "OAuth server configuration error: No users configured")
         ELSE IF body.username = ""
         THEN OAuthError(400, "invalid_request", "Missing required parameter: username")
         ELSE IF body.password = ""
         THEN OAuthError(400, "invalid_request", "Missing required parameter: password")
         ELSE LET i == FindUser(body.username, body.password)
              IN  IF i = 0
                  THEN OAuthError(401, "invalid_grant", "Invalid username or password")
                  ELSE MintToken(body.username, users[i].role, body.scope)
    ELSE OAuthError(400, "invalid_grant",
                    "Unsupported grant type. Supported types: client_credentials, password")

\* GET /.well-known/jwks.json
jwksHandler ==
    LET jwks == getPublicKeyJWK
    IN  IF Threw(jwks) THEN OAuthError(500, "server_error", jwks.message)
        ELSE [status |-> 200, json |-> jwks]

(***************************************************************************)
(* middleware/auth: authenticateToken                                      *)
(***************************************************************************)
SP == [lex |-> "sp"]                     \* the character ' '

Word(w) == [lex |-> "word", w |-> w]     \* a run of characters with no space

Bearer(token) == <<Word("Bearer"), SP, token>>

RECURSIVE SplitOnRuns(_)
\* A split on runs of spaces: no empty parts.
SplitOnRuns(s) ==
    IF s = <<>> THEN <<>>
    ELSE IF Head(s) = SP THEN SplitOnRuns(Tail(s))
    ELSE << <<Head(s)>> >> \o SplitOnRuns(Tail(s))

RECURSIVE Split(_)
\* String.prototype.split(' '): the parts between the spaces, empty ones included.
Split(s) ==
    IF s = <<>> THEN << <<>> >>
    ELSE LET rest == Split(Tail(s))
         IN  IF Head(s) = SP THEN << <<>> >> \o rest
             ELSE << <<Head(s)>> \o Head(rest) >> \o Tail(rest)

NotJson == [notjson |-> TRUE]            \* a payload segment that is no JSON text

JwtError(name, message) == [threw |-> name, message |-> message]

\* jwt.decode in the place of jwt.verify: the signature is not checked.
jwt_decode_only(token, publicKey) ==
    IF Len(token) # 1 \/ token[1].lex # "jws"
    THEN JwtError("JsonWebTokenError", "jwt malformed")
    ELSE IF token[1].payload = NotJson
    THEN JwtError("SyntaxError", "Unexpected token in JSON")
    ELSE IF "exp" \in DOMAIN token[1].payload /\ now >= token[1].payload.exp
    THEN JwtError("TokenExpiredError", "jwt expired")
    ELSE token[1].payload

\* jwt.verify with {complete: true}: header, payload and signature together.
jwt_verify_complete(token, publicKey) ==
    IF Len(token) # 1 \/ token[1].lex # "jws"
    THEN JwtError("JsonWebTokenError", "jwt malformed")
    ELSE LET jws == token[1]
         IN  IF jws.payload = NotJson
             THEN JwtError("SyntaxError", "Unexpected token in JSON")
             ELSE IF ~(jws.signature.by = publicKey.n /\ jws.signature.over = jws.payload)
             THEN JwtError("JsonWebTokenError", "invalid signature")
             ELSE IF "exp" \in DOMAIN jws.payload /\ now >= jws.payload.exp
             THEN JwtError("TokenExpiredError", "jwt expired")
             ELSE [header |-> jws.header, payload |-> jws.payload,
                   signature |-> jws.signature]

\* A verify called with issuer and audience options.
jwt_verify_issuer_audience(token, publicKey) ==
    IF Len(token) # 1 \/ token[1].lex # "jws"
    THEN JwtError("JsonWebTokenError", "jwt malformed")
    ELSE LET jws == token[1]
         IN  IF jws.payload = NotJson
             THEN JwtError("SyntaxError", "Unexpected token in JSON")
             ELSE IF jws.header.alg # "RS256"
             THEN JwtError("JsonWebTokenError", "invalid algorithm")
             ELSE IF ~(jws.signature.by = publicKey.n /\ jws.signature.over = jws.payload)
             THEN JwtError("JsonWebTokenError", "invalid signature")
             ELSE IF "nbf" \in DOMAIN jws.payload /\ jws.payload.nbf > now
             THEN JwtError("NotBeforeError", "jwt not active")
             ELSE IF "exp" \in DOMAIN jws.payload /\ now >= jws.payload.exp
             THEN JwtError("TokenExpiredError", "jwt expired")
             ELSE IF "aud" \notin DOMAIN jws.payload \/ jws.payload.aud # "example-app"
             THEN JwtError("JsonWebTokenError", "jwt audience invalid")
             ELSE IF "iss" \notin DOMAIN jws.payload \/ jws.payload.iss # "example-app"
             THEN JwtError("JsonWebTokenError", "jwt issuer invalid")
             ELSE jws.payload

\* jwt.verify(token, publicKey, {algorithms: ['RS256']}) of jsonwebtoken: three
\* segments, decode, algorithm, signature, nbf, exp, in that order.  A payload
\* that is no JSON makes the decoder's JSON.parse throw a SyntaxError, which
\* verify rethrows as it is.  The signature segment is decoded with
\* Buffer's base64 decoder, which drops the spare bits of the last character.
jwt_verify(token, publicKey) ==
    IF Len(token) # 1 \/ token[1].lex # "jws"
    THEN JwtError("JsonWebTokenError", "jwt malformed")
    ELSE LET jws == token[1]
         IN  IF jws.payload = NotJson
             THEN JwtError("SyntaxError", "Unexpected token in JSON")
             ELSE IF jws.header.alg # "RS256"
             THEN JwtError("JsonWebTokenError", "invalid algorithm")
             ELSE IF ~(jws.signature.by = publicKey.n /\ jws.signature.over = jws.payload)
             THEN JwtError("JsonWebTokenError", "invalid signature")
             ELSE IF "nbf" \in DOMAIN jws.payload /\ jws.payload.nbf > now
             THEN JwtError("NotBeforeError", "jwt not active")
             ELSE IF "exp" \in DOMAIN jws.payload /\ now >= jws.payload.exp
             THEN JwtError("TokenExpiredError", "jwt expired")
             ELSE jws.payload

\* What the middleware did: the response it sent (NULL if none), whether it
\* called next(), and req.user (NULL if not set).
Rejected(status, error, description) ==
    [res |-> OAuthError(status, error, description), next |-> FALSE, user |-> NULL]

\* The catch block: the instanceof chain over what was thrown.
AuthCatch(error) ==
    IF error.threw = "TokenExpiredError"
    THEN Rejected(401, "unauthorized", "Token has expired")
    ELSE IF error.threw = "NotBeforeError"
    THEN Rejected(401, "unauthorized", "Token not yet valid")
    ELSE IF error.threw = "JsonWebTokenError"
    THEN Rejected(401, "unauthorized", "Invalid or malformed token")
    ELSE Rejected(500, "server_error", "Authentication error")

\* A middleware that keeps the claims in a variable of the module: a request
\* is handed the claims of a request still in flight, if there is one.
authenticateTokenSharedUser(authHeader) ==
    LET inFlight == {r \in Slots : reqs[r].user # NULL}
        decoded  == IF Len(authHeader) = 3 /\ keyPair # NULL
                    THEN jwt_verify(<<authHeader[3]>>, keyPair.publicKey)
                    ELSE JwtError("JsonWebTokenError", "jwt malformed")
    IN  IF Threw(decoded)
        THEN Rejected(401, "unauthorized", "Invalid or malformed token")
        ELSE [res |-> NULL, next |-> TRUE,
              user |-> IF inFlight = {} THEN decoded
                       ELSE reqs[CHOOSE r \in inFlight : TRUE].user]

authenticateToken(authHeader) ==
    IF authHeader = <<>>
    THEN Rejected(401, "unauthorized", "Missing Authorization header")
    ELSE LET parts == Split(authHeader)
         IN  IF Len(parts) # 2 \/ parts[1] # <<Word("Bearer")>>
             THEN Rejected(401, "unauthorized",
                           "Invalid Authorization header format. Expected: Bearer <token>")
             ELSE IF parts[2] = <<>>
             THEN Rejected(401, "unauthorized", "Missing access token")
             ELSE LET publicKey == getPublicKey
                  IN  IF Threw(publicKey) THEN AuthCatch(publicKey)
                      ELSE LET decoded == jwt_verify(parts[2], publicKey)
                           IN  IF Threw(decoded) THEN AuthCatch(decoded)
                               ELSE [res |-> NULL, next |-> TRUE, user |-> decoded]

(***************************************************************************)
(* services/documentProcessor: the documents uploaded so far               *)
(*                                                                         *)
(* The Map is the sequence of its entries in insertion order.              *)
(***************************************************************************)
\* map.get(documentId): the entry, NULL (undefined) if there is none.
loadDocumentIn(map, documentId) ==
    LET hits == {i \in 1..Len(map) : map[i].id = documentId}
    IN  IF hits = {} THEN NULL ELSE map[FirstOf(hits)]

loadDocument(documentId) == loadDocumentIn(documents, documentId)

\* A store that keeps a second entry when the identifier is taken.
saveDocumentAppending(id, filename, content) ==
    Append(documents, [id |-> id, filename |-> filename, content |-> content,
                       uploadedAt |-> now])

\* documents.set(id, doc), id being `doc-${Date.now()}-${random}`: a taken
\* identifier keeps its place and gets the new document.
saveDocument(id, filename, content) ==
    LET doc  == [id |-> id, filename |-> filename, content |-> content,
                 uploadedAt |-> now]
        hits == {i \in 1..Len(documents) : documents[i].id = id}
    IN  IF hits = {} THEN Append(documents, doc)
        ELSE [documents EXCEPT ![FirstOf(hits)] = doc]

\* Array.from(documents.values())
listDocuments == documents

\* initializeSampleDocuments(): the sample file read into an empty Map.
SampleDocuments ==
    << [id |-> "doc-0", filename |-> "sample.txt", content |-> "sample",
        uploadedAt |-> 0] >>

(***************************************************************************)
(* services/assistantTools: the tools of the property assistant and the    *)
(* state file they read and write                                          *)
(***************************************************************************)
BookingStatuses == {"pending", "approved", "declined", "cancelled"}

\* Array.prototype.find on the id: the index of the first match, 0 if none.
FindById(list, id) == FirstOf({i \in 1..Len(list) : list[i].id = id})

Text(text) == [text |-> text]

\* JSON.stringify(value, null, 2)
Stringify(value) == [text |-> "<json>", json |-> value]

\* `${args.reason ? `: ${args.reason}` : ''}`
ReasonOf(args) ==
    IF "reason" \in DOMAIN args /\ args.reason # "" THEN args.reason ELSE ""

\* list_bookings written to store the filtered list it shows.
executeToolSavingFilter(toolName, args) ==
    IF toolName = "list_bookings" /\ "status" \in DOMAIN args
    THEN LET bookings == SelectSeq(state.bookings, LAMBDA b : b.status = args.status)
         IN  [result |-> Stringify(bookings),
              state  |-> [state EXCEPT !.bookings = bookings]]
    ELSE [result |-> [text |-> "Unknown tool", toolName |-> toolName], state |-> state]

\* An approve_booking that does not look at the status it replaces.
executeToolApproveAny(toolName, args) ==
    LET booking == IF "bookingId" \in DOMAIN args
                   THEN FindById(state.bookings, args.bookingId) ELSE 0
    IN  IF toolName = "approve_booking" /\ booking # 0
        THEN [result |-> [text |-> "Booking has been approved",
                          bookingId |-> args.bookingId],
              state  |-> [state EXCEPT !.bookings[booking].status = "approved"]]
        ELSE [result |-> Text("Booking not found"), state |-> state]

\* executeTool(toolName, args): what it returns and the state file after it.
executeTool(toolName, args) ==
    LET booking  == IF "bookingId" \in DOMAIN args
                    THEN FindById(state.bookings, args.bookingId) ELSE 0
        property == IF "propertyId" \in DOMAIN args
                    THEN FindById(state.properties, args.propertyId) ELSE 0
        Kept(result) == [result |-> result, state |-> state]
        NotFound(what) == Kept(Text(what))
    IN  CASE toolName = "list_properties" -> Kept(Stringify(state.properties))
          [] toolName = "list_bookings" ->
                Kept(Stringify(IF "status" \in DOMAIN args /\ args.status # ""
                               THEN SelectSeq(state.bookings,
                                              LAMBDA b : b.status = args.status)
                               ELSE state.bookings))
          [] toolName = "get_booking_details" ->
                IF booking = 0 THEN NotFound("Booking not found")
                ELSE Kept(Stringify(state.bookings[booking]))
          [] toolName = "approve_booking" ->
                IF booking = 0 THEN NotFound("Booking not found")
                ELSE IF state.bookings[booking].status # "pending"
                THEN Kept([text |-> "Cannot approve booking with status",
                           status |-> state.bookings[booking].status])
                ELSE [result |-> [text |-> "Booking has been approved",
                                  bookingId |-> args.bookingId],
                      state  |-> [state EXCEPT !.bookings[booking].status = "approved"]]
          [] toolName = "decline_booking" ->
                IF booking = 0 THEN NotFound("Booking not found")
                ELSE IF state.bookings[booking].status # "pending"
                THEN Kept([text |-> "Cannot decline booking with status",
                           status |-> state.bookings[booking].status])
                ELSE [result |-> [text |-> "Booking has been declined",
                                  bookingId |-> args.bookingId, reason |-> ReasonOf(args)],
                      state  |-> [state EXCEPT !.bookings[booking].status = "declined"]]
          [] toolName = "send_message_to_guest" ->
                [result |-> [text |-> "Message sent", to |-> args.guestEmail],
                 state  |-> [state EXCEPT !.sentMessages =
                                Append(@, [to |-> args.guestEmail, subject |-> args.subject,
                                           body |-> args.body, timestamp |-> now])]]
          [] toolName = "update_property_price" ->
                IF property = 0 THEN NotFound("Property not found")
                ELSE [result |-> [text |-> "Property price updated",
                                  name |-> state.properties[property].name,
                                  oldPrice |-> state.properties[property].nightlyRate,
                                  newPrice |-> args.newPrice],
                      state  |-> [state EXCEPT
                                     !.properties[property].nightlyRate = args.newPrice]]
          [] toolName = "set_property_availability" ->
                IF property = 0 THEN NotFound("Property not found")
                ELSE [result |-> [text |-> "Property availability set",
                                  name |-> state.properties[property].name,
                                  available |-> args.available],
                      state  |-> [state EXCEPT
                                     !.properties[property].available = args.available]]
          [] toolName = "cancel_booking" ->
                IF booking = 0 THEN NotFound("Booking not found")
                ELSE [result |-> [text |-> "Booking has been cancelled",
                                  bookingId |-> args.bookingId, reason |-> ReasonOf(args)],
                      state  |-> [state EXCEPT !.bookings[booking].status = "cancelled"]]
          [] OTHER -> Kept([text |-> "Unknown tool", toolName |-> toolName])

\* data/assistant-state.json as the repository ships it, in outline.
Booking(id, status) == [id |-> id, status |-> status]

SeedState ==
    [properties   |-> << [id |-> "p1", name |-> "cabin", nightlyRate |-> 100,
                          available |-> TRUE] >>,
     bookings     |-> << Booking("b1", "pending"), Booking("b2", "approved") >>,
     sentMessages |-> <<>>]

(***************************************************************************)
(* utils/litellm-config: the model allowlist read from litellm_config.yaml *)
(***************************************************************************)
Unreadable == [unreadable |-> TRUE]

ModelEntry(model_name, model) ==
    [model_name |-> model_name, litellm_params |-> [model |-> model]]

\* The try block of getAllowedModels: the names, or the exception.  A file
\* that cannot be read and a document that is no mapping both throw.
ReadModels(file) ==
    IF file = Unreadable THEN [threw |-> TRUE]
    ELSE IF "model_list" \notin DOMAIN file THEN [threw |-> FALSE, models |-> <<>>]
    ELSE LET NameOf(entry) == IF entry.model_name # "" THEN entry.model_name
                              ELSE entry.litellm_params.model
             named == SelectSeq(file.model_list, LAMBDA entry : NameOf(entry) # "")
         IN  [threw |-> FALSE, models |-> [i \in 1..Len(named) |-> NameOf(named[i])]]

\* getAllowedModels() on a cache and a file: the list it returns and the
\* cache it leaves.  A failed load returns [] and caches nothing.
getAllowedModelsOf(cache, file) ==
    IF cache # NULL THEN [models |-> cache.models, cache |-> cache]
    ELSE LET read == ReadModels(file)
         IN  IF read.threw THEN [models |-> <<>>, cache |-> cache]
             ELSE [models |-> read.models, cache |-> [models |-> read.models]]

getAllowedModels == getAllowedModelsOf(allowedModels, config)

InList(list, x) == \E i \in 1..Len(list) : list[i] = x

\* isModelAllowed(model)
isModelAllowed(model) ==
    LET allowed == getAllowedModels.models
    IN  Len(allowed) = 0 \/ InList(allowed, model)

\* litellm_config.yaml as the repository ships it, in outline.
ShippedConfig == [model_list |-> << ModelEntry("gpt-4o", "openai/gpt-4o"),
                                    ModelEntry("gpt-5-mini", "openai/gpt-5-mini") >>]

(***************************************************************************)
(* The environment the server is started in, and the requests it is sent.  *)
(***************************************************************************)
MkEnv(ro, rw, ad, uro, urw, uad, expiresIn) ==
    [OAUTH_CLIENT_ID_READONLY      |-> ro[1],  OAUTH_CLIENT_SECRET_READONLY  |-> ro[2],
     OAUTH_CLIENT_ID_READWRITE     |-> rw[1],  OAUTH_CLIENT_SECRET_READWRITE |-> rw[2],
     OAUTH_CLIENT_ID_ADMIN         |-> ad[1],  OAUTH_CLIENT_SECRET_ADMIN     |-> ad[2],
     OAUTH_USERNAME_READONLY       |-> uro[1], OAUTH_PASSWORD_READONLY       |-> uro[2],
     OAUTH_USERNAME_READWRITE      |-> urw[1], OAUTH_PASSWORD_READWRITE      |-> urw[2],
     OAUTH_USERNAME_ADMIN          |-> uad[1], OAUTH_PASSWORD_ADMIN          |-> uad[2],
     OAUTH_TOKEN_EXPIRES_IN        |-> expiresIn]

Unset == <<"", "">>

\* An identifier/secret pair as a role may be given it: unset, half set, set.
ClientPairs == {Unset, <<"a", "">>, <<"", "s">>, <<"a", "s">>, <<"a", "t">>, <<"b", "s">>}

UserPairs == {Unset, <<"u", "">>, <<"u", "p">>, <<"u", "q">>}

\* The token endpoint is explored over every client configuration with the
\* users unset or all set, and over every user configuration with the clients
\* unset or all set (no path of either handler reads both lists).
TokenEnvs ==
    {MkEnv(ro, rw, ad, Unset, Unset, Unset, <<>>) : ro \in ClientPairs, rw \in ClientPairs, ad \in ClientPairs}
    \cup {MkEnv(Unset, Unset, Unset, uro, urw, uad, <<>>) :
             uro \in UserPairs, urw \in UserPairs, uad \in UserPairs}
    \cup {MkEnv(<<"a", "s">>, rw, <<"b", "s">>, <<"u", "p">>, urw, Unset, <<>>) :
             rw \in ClientPairs, urw \in UserPairs}

GrantTypes == {"", "client_credentials", "password", "refresh_token"}

TokenBodies ==
    {b \in [grant_type : GrantTypes, client_id : {"", "a", "b"},
            client_secret : {"", "s", "t"}, username : {"", "u"},
            password : {"", "p", "q"}, scope : {"", "read"}] :
        \/ b.client_id = "" /\ b.client_secret = ""
        \/ b.username = "" /\ b.password = ""}

Handlers == {"client_credentials", "password"}

\* POST /oauth/token, as served by either version of routes/oauth.
TokenResponse(handler, body) ==
    IF handler = "client_credentials" THEN tokenHandler(body)
    ELSE tokenHandlerPassword(body)

NoRequest == [kind |-> "none"]

NoChat ==
    [pc |-> "idle", route |-> "", header |-> <<>>, level |-> "", query |-> NULL,
     body |-> NULL, user |-> NULL, litellmRequest |-> NULL, iteration |-> 0,
     inflight |-> NULL, calls |-> 0, toolRuns |-> 0, replies |-> <<>>, res |-> NULL,
     responses |-> 0]

\* The modules of the services as they are after their load.
BootServices ==
    /\ reqs = [r \in Slots |-> NoChat]
    /\ documents = SampleDocuments
    /\ state = SeedState
    /\ config = ShippedConfig
    /\ allowedModels = getAllowedModelsOf(NULL, config).cache
    /\ chatAllowedModels = getAllowedModelsOf(NULL, config).models

Boot(envs) ==
    /\ BootServices
    /\ env \in envs
    /\ clients = LoadClients(env)
    /\ users = LoadUsers(env)
    /\ TOKEN_EXPIRES_IN = LoadTokenExpiresIn(env)
    /\ keyPair = NULL
    /\ drawn = 0
    /\ phase = "boot"
    /\ now = 0
    /\ issued = {}
    /\ last = NoRequest
    /\ chat = NoChat

\* server.ts: generateRSAKeyPair(), the routes, app.listen.
Startup ==
    /\ phase = "boot"
    /\ generateRSAKeyPair
    /\ phase' = "listening"
    /\ UNCHANGED <<oauthVars, now, issued, last, chat,
                 reqs, rentalVars, modelVars>>

\* generateRSAKeyPair called again while the server runs.
Regenerate ==
    /\ phase = "listening"
    /\ generateRSAKeyPair
    /\ UNCHANGED <<oauthVars, phase, now, issued, last, chat,
                 reqs, rentalVars, modelVars>>

Tick ==
    /\ now < MaxNow
    /\ now' = now + 1
    /\ UNCHANGED <<oauthVars, keyPair, drawn, phase, issued, last, chat,
                 reqs, rentalVars, modelVars>>

TokenRequest(handler, body) ==
    /\ phase = "listening"
    /\ last = NoRequest
    /\ last' = [kind |-> "token", handler |-> handler, body |-> body, at |-> now,
                res |-> TokenResponse(handler, body)]
    /\ UNCHANGED <<oauthVars, keyPair, drawn, phase, now, issued, chat,
                 reqs, rentalVars, modelVars>>

\* The caller keeps the access token of the response it just got.
KeepToken ==
    /\ last.kind = "token"
    /\ last.res.status = 200
    /\ last.res.json.access_token \notin issued
    /\ Cardinality(issued) < MaxIssued
    /\ issued' = issued \cup {last.res.json.access_token}
    /\ UNCHANGED <<oauthVars, keyPair, drawn, phase, now, last, chat,
                 reqs, rentalVars, modelVars>>

JwksRequest ==
    /\ phase = "listening"
    /\ last = NoRequest
    /\ last' = [kind |-> "jwks", at |-> now, res |-> jwksHandler]
    /\ UNCHANGED <<oauthVars, keyPair, drawn, phase, now, issued, chat,
                 reqs, rentalVars, modelVars>>

\* A protected route: the middleware, and the route's handler if next() is called.
AuthRequest(authHeader) ==
    /\ phase = "listening"
    /\ last = NoRequest
    /\ last' = [kind |-> "auth", header |-> authHeader, at |-> now,
                key |-> keyPair, out |-> authenticateToken(authHeader)]
    /\ UNCHANGED <<oauthVars, keyPair, drawn, phase, now, issued, chat,
                 reqs, rentalVars, modelVars>>

\* The exchange is over; the next request finds an empty log.
EndExchange ==
    /\ last # NoRequest
    /\ last' = NoRequest
    /\ UNCHANGED <<oauthVars, keyPair, drawn, phase, now, issued, chat,
                 reqs, rentalVars, modelVars>>

(***************************************************************************)
(* The token endpoint over its configurations.                             *)
(***************************************************************************)
InitToken == Boot(TokenEnvs)

NextToken ==
    \/ Startup
    \/ \E handler \in Handlers, body \in TokenBodies : TokenRequest(handler, body)
    \/ JwksRequest
    \/ EndExchange

SpecToken == InitToken /\ [][NextToken]_vars

(***************************************************************************)
(* Keys, tokens and the middleware over time.                              *)
(***************************************************************************)
AuthEnvs ==
    {MkEnv(<<"a", "s">>, Unset, <<"b", "s">>, Unset, Unset, Unset, expiresIn) :
        expiresIn \in {<<1>>, <<2>>}}

AuthBodies ==
    {[grant_type |-> "client_credentials", client_id |-> id, client_secret |-> secret,
      username |-> "", password |-> "",
      scope |-> IF id = "b" /\ secret = "s" THEN "read" ELSE ""] :
        id \in {"a", "b"}, secret \in {"s", "t"}}

\* A token with its signature segment replaced by other bytes.
WithSignature(token, signature) == [token EXCEPT !.signature = signature]

\* A token with a claim of its payload rewritten and the signature kept.
WithRole(token, role) == [token EXCEPT !.payload.role = role]

Garbage == Word("garbage")

\* Three segments, a header that says JWT, and a payload that is no JSON.
BadPayload ==
    [lex |-> "jws", header |-> JwtHeader, payload |-> NotJson,
     signature |-> [by |-> 0, over |-> NotJson, spare |-> 0]]

\* The Authorization headers a caller holding the tokens `held` may send.
AuthHeaders(held) ==
    {<<>>, <<Word("Bearer")>>, <<Word("Bearer"), SP>>, Bearer(Garbage), Bearer(BadPayload)}
    \cup {Bearer(t) : t \in held}
    \cup {Bearer(WithSignature(t, [by |-> 0, over |-> t.payload, spare |-> 0])) : t \in held}
    \cup {Bearer(WithSignature(t, [t.signature EXCEPT !.spare = 1])) : t \in held}
    \cup {Bearer(WithRole(t, "admin")) : t \in held}
    \cup {<<Word("bearer"), SP, t>> : t \in held}
    \cup {<<Word("Basic"), SP, t>> : t \in held}
    \cup {<<Word("Bearer"), SP, SP, t>> : t \in held}
    \cup {<<Word("Bearer"), SP, t, SP, Word("x")>> : t \in held}
    \cup {<<t>> : t \in held}

Init == Boot(AuthEnvs)

Next ==
    \/ Startup
    \/ Regenerate
    \/ Tick
    \/ \E handler \in Handlers, body \in AuthBodies : TokenRequest(handler, body)
    \/ KeepToken
    \/ JwksRequest
    \/ \E authHeader \in AuthHeaders(issued) : AuthRequest(authHeader)
    \/ EndExchange

Spec == Init /\ [][Next]_vars

(***************************************************************************)
(* routes/chat (the version with tools): values, validation                *)
(*                                                                         *)
(* A JavaScript value is a record tagged with its type.  A string carries  *)
(* what JSON.parse makes of it: NotJson if it is no JSON text.             *)
(***************************************************************************)
Undefined == [t |-> "undefined"]

JsonNull == [t |-> "null"]

Num(n) == [t |-> "number", n |-> n]

Str(text) == [t |-> "string", text |-> text, json |-> NotJson]

\* JSON.stringify(value): the string that JSON.parse turns back into value.
JsonText(value) == [t |-> "string", text |-> "<json>", json |-> value]

Arr(items) == [t |-> "array", items |-> items]

Obj(props) == [t |-> "object", props |-> props]

\* new Date(seconds * 1000).toISOString()
IsoDate(seconds) == [t |-> "string", text |-> "<iso date>", json |-> NotJson, epoch |-> seconds]

UserTurn(content) == Obj([role |-> Str("user"), content |-> content])

\* String(input) of a value that is neither an array nor a string.
StringOf(input) ==
    IF input.t = "undefined" THEN Str("undefined")
    ELSE IF input.t = "null" THEN Str("null")
    ELSE IF input.t = "number" THEN [t |-> "string", text |-> "<number>", json |-> input]
    ELSE Str("[object Object]")

\* A normalizer that never tries JSON.parse on a string.
normalizeMessagesNoParse(input) ==
    IF input.t = "array" THEN input
    ELSE IF input.t = "string" THEN Arr(<<UserTurn(input)>>)
    ELSE Arr(<<UserTurn(StringOf(input))>>)

normalizeMessages(input) ==
    IF input.t = "array" THEN input
    ELSE IF input.t = "string"
    THEN IF input.json = NotJson THEN Arr(<<UserTurn(input)>>)
         ELSE IF input.json.t = "array" THEN input.json
         ELSE IF input.json.t = "object" THEN Arr(<<input.json>>)
         ELSE Arr(<<UserTurn(input)>>)
    ELSE Arr(<<UserTurn(StringOf(input))>>)

\* z.object({role: z.string(), content: z.string()}): the two keys, both strings.
IsTurn(item) ==
    /\ item.t = "object"
    /\ {"role", "content"} \subseteq DOMAIN item.props
    /\ item.props.role.t = "string"
    /\ item.props.content.t = "string"

\* chatBodySchema.safeParse(req.body): the turns, or the failure.
ParseBody(body) ==
    LET messages == IF "messages" \in DOMAIN body THEN body.messages ELSE Undefined
        items == normalizeMessages(messages).items
    IN  IF Len(items) >= 1 /\ \A i \in 1..Len(items) : IsTurn(items[i])
        THEN [success |-> TRUE,
              messages |-> [i \in 1..Len(items) |->
                               [role |-> items[i].props.role,
                                content |-> items[i].props.content]]]
        ELSE [success |-> FALSE]

FISH_TO_LEVEL == [minnow |-> "insecure", shark |-> "secure"]

\* levelPathSchema.safeParse(req.params)
ParseLevel(level) == level \in {"minnow", "shark"}

Domains == {"general", "finance", "medicine", "vacation-rental", "taxes"}

\* The schema without .strict(): parameters it does not know are dropped.
ParseQueryLoose(query) ==
    IF "domain" \in DOMAIN query => query.domain \in Domains
    THEN [success |-> TRUE,
          domain |-> IF "domain" \in DOMAIN query THEN query.domain ELSE "general",
          model |-> IF "model" \in DOMAIN query THEN query.model ELSE ""]
    ELSE [success |-> FALSE]

\* chatQuerySchema.safeParse(req.query): strict, domain defaults to 'general'.
ParseQuery(query) ==
    IF DOMAIN query \subseteq {"model", "domain"}
       /\ ("domain" \in DOMAIN query => query.domain \in Domains)
    THEN [success |-> TRUE,
          domain |-> IF "domain" \in DOMAIN query THEN query.domain ELSE "general",
          model |-> IF "model" \in DOMAIN query THEN query.model ELSE ""]
    ELSE [success |-> FALSE]

\* domains/index: domainPrompts[domain][level], the text of a prompt file.
getSystemPrompt(domain, level) ==
    [t |-> "string", text |-> "<prompt>", json |-> NotJson, domain |-> domain, level |-> level]

(***************************************************************************)
(* routes/chat: tools                                                      *)
(***************************************************************************)
TOOLS == << [type |-> "function", function |-> [name |-> "get_user"]] >>

\* x || fallback for a claim that may be absent from the token.
ClaimOr(user, claim, fallback) ==
    IF claim \in DOMAIN user /\ user[claim] # "" THEN Str(user[claim]) ELSE fallback

\* req.user.iat ? new Date(req.user.iat * 1000).toISOString() : null
DateOrNull(user, claim) ==
    IF claim \in DOMAIN user /\ user[claim] # 0 THEN IsoDate(user[claim]) ELSE JsonNull

\* A switch without its default case: an unknown name yields undefined.
executeToolCallNoDefault(toolName, args, user) ==
    IF toolName = "get_user"
    THEN JsonText(Obj([error |-> Str("No authenticated user"),
                       message |-> Str("This endpoint requires authentication to retrieve user information")]))
    ELSE Undefined

executeToolCall(toolName, args, user) ==
    IF toolName = "get_user"
    THEN IF user # NULL
         THEN JsonText(Obj([userId    |-> Str(user.sub),
                            role      |-> ClaimOr(user, "role", Str("unknown")),
                            issuer    |-> Str(user.iss),
                            audience  |-> Str(user.aud),
                            issuedAt  |-> DateOrNull(user, "iat"),
                            expiresAt |-> DateOrNull(user, "exp"),
                            scope     |-> ClaimOr(user, "scope", JsonNull)]))
         ELSE JsonText(Obj([error |-> Str("No authenticated user"),
                            message |-> Str("This endpoint requires authentication to retrieve user information")]))
    ELSE JsonText(Obj([error |-> Str("Unknown tool"),
                       message |-> [t |-> "string", text |-> "Tool '<toolName>' is not available",
                                    json |-> NotJson, toolName |-> toolName]]))

(***************************************************************************)
(* routes/chat: chatHandler and its tool-call loop                         *)
(***************************************************************************)
MAX_TOOL_ITERATIONS == 10

\* Every error answered as 500, whatever the upstream said.
ChatErrorAlways500(status, error, message) ==
    [status |-> 500, json |-> [error |-> error, message |-> message]]

ChatError(status, error, message) ==
    [status |-> status, json |-> [error |-> error, message |-> message]]

\* A response is sent and the handler returns.
Respond(c, res) ==
    [c EXCEPT !.pc = "done", !.res = res, !.responses = @ + 1, !.inflight = NULL]

\* The loop with its bound off by one: iteration <= MAX_TOOL_ITERATIONS.
WhileLoopOffByOne(c) ==
    IF c.iteration <= MAX_TOOL_ITERATIONS
    THEN [c EXCEPT !.pc = "awaiting", !.iteration = @ + 1, !.calls = @ + 1,
                   !.inflight = c.litellmRequest]
    ELSE [c EXCEPT !.pc = "done", !.responses = @ + 1, !.inflight = NULL,
                   !.res = [status |-> 500,
                            json |-> [error |-> "Tool call limit exceeded",
                                      message |-> "Maximum tool call iterations (10) reached"]]]

\* while (iteration < MAX_TOOL_ITERATIONS) { iteration++; await fetch(...) ... }
\* and, past the loop, the 'Tool call limit exceeded' response.
WhileLoop(c) ==
    IF c.iteration < MAX_TOOL_ITERATIONS
    THEN [c EXCEPT !.pc = "awaiting", !.iteration = @ + 1, !.calls = @ + 1,
                   !.inflight = c.litellmRequest]
    ELSE Respond(c, ChatError(500, "Tool call limit exceeded",
                              "Maximum tool call iterations (10) reached"))

\* chatHandler from its entry to the first await.
chatHandlerEnter(c) ==
    IF ~ParseLevel(c.level)
    THEN Respond(c, ChatError(400, "Invalid path parameter",
                              "Security level must be 'minnow' or 'shark'."))
    ELSE LET query == ParseQuery(c.query)
         IN  IF ~query.success
             THEN Respond(c, ChatError(400, "Invalid query parameters", "query"))
             ELSE LET body == ParseBody(c.body)
                  IN  IF ~body.success
                      THEN Respond(c, ChatError(400, "Invalid request body", "messages"))
                      ELSE LET systemPrompt ==
                                   getSystemPrompt(query.domain, FISH_TO_LEVEL[c.level])
                               messages == << [role |-> Str("system"),
                                               content |-> systemPrompt] >> \o body.messages
                               request == [messages |-> messages, tools |-> TOOLS,
                                           tool_choice |-> "auto"]
                           IN  WhileLoop([c EXCEPT !.litellmRequest =
                                   IF query.model # "" THEN [model |-> query.model] @@ request
                                   ELSE request])

\* JSON.parse(toolCall.function.arguments || '{}'), {} when it throws.
ParseToolArgs(arguments) ==
    IF arguments.t = "string" /\ arguments.json # NotJson THEN arguments.json
    ELSE Obj(<<>>)

\* A tool turn tagged with the id of the response's first call.
ToolTurnTaggedAsFirst(toolCall, user) ==
    [role |-> Str("tool"), tool_call_id |-> <<toolCall.id[1], 1>>,
     content |-> executeToolCall(toolCall.function.name,
                                 ParseToolArgs(toolCall.function.arguments), user)]

\* The turn one tool call adds to the conversation.
ToolTurn(toolCall, user) ==
    [role |-> Str("tool"), tool_call_id |-> toolCall.id,
     content |-> executeToolCall(toolCall.function.name,
                                 ParseToolArgs(toolCall.function.arguments), user)]

\* A handler that takes every completion for the final answer.
NoToolCalls(data) == <<>>

\* data.choices?.[0]?.message?.tool_calls, <<>> where a link is missing.
ToolCallsOf(data) ==
    IF "choices" \in DOMAIN data /\ Len(data.choices) >= 1
       /\ "tool_calls" \in DOMAIN data.choices[1].message
    THEN data.choices[1].message.tool_calls
    ELSE <<>>

\* assistantMessage.content || null
ContentOrNull(content) ==
    IF content = JsonNull \/ content = Str("") THEN JsonNull ELSE content

\* chatHandler from the settlement of a fetch to the next await or the return.
\* A fetch that rejects, a body that cannot be read, a body that is no JSON and
\* a property read of null or undefined all land in the catch block.
chatHandlerResume(c, reply) ==
    IF reply.kind = "rejected"
    THEN Respond(c, ChatError(500, "Internal server error", reply.message))
    ELSE IF reply.aborted
    THEN Respond(c, ChatError(500, "Internal server error", "terminated"))
    ELSE IF ~reply.ok
    THEN Respond(c, ChatError(reply.status, "LiteLLM server error", reply.text))
    ELSE IF reply.data = NotJson
    THEN Respond(c, ChatError(500, "Internal server error", "Unexpected token in JSON"))
    ELSE IF reply.data = JsonNull
    THEN Respond(c, ChatError(500, "Internal server error",
                              "Cannot read properties of null"))
    ELSE LET toolCalls == ToolCallsOf(reply.data)
         IN  IF Len(toolCalls) > 0
             THEN IF \E j \in 1..Len(toolCalls) : "function" \notin DOMAIN toolCalls[j]
                  THEN Respond(c, ChatError(500, "Internal server error",
                                            "Cannot read properties of undefined"))
                  ELSE LET assistant == [role |-> Str("assistant"),
                                         content |-> ContentOrNull(
                                             reply.data.choices[1].message.content),
                                         tool_calls |-> toolCalls]
                           results == [j \in 1..Len(toolCalls) |->
                                          ToolTurn(toolCalls[j], c.user)]
                       IN  WhileLoop([c EXCEPT
                               !.litellmRequest.messages = @ \o <<assistant>> \o results,
                               !.toolRuns = @ + Len(toolCalls)])
             ELSE Respond(c, [status |-> 200, json |-> reply.data])

\* A request routed to chatHandler: POST /:level/chat, or, behind
\* authenticateToken, POST /authorized/:level/chat.
NewChat(request) ==
    [NoChat EXCEPT !.pc = "start", !.route = request.route, !.header = request.header,
                   !.level = request.level, !.query = request.query,
                   !.body = request.body]

RouteChat(request) ==
    LET c == NewChat(request)
    IN  IF request.route = "/authorized/:level/chat"
        THEN LET out == authenticateToken(request.header)
             IN  IF out.next THEN chatHandlerEnter([c EXCEPT !.user = out.user])
                 ELSE Respond(c, out.res)
        ELSE chatHandlerEnter(c)

ChatStart(request) ==
    /\ phase = "listening"
    /\ chat = NoChat
    /\ chat' = RouteChat(request)
    /\ UNCHANGED <<oauthVars, keyPair, drawn, phase, now, issued, last,
                 reqs, rentalVars, modelVars>>

\* The fetch in flight settles and the handler runs to its next await.
UpstreamReply(reply) ==
    /\ chat.pc = "awaiting"
    /\ chat' = chatHandlerResume([chat EXCEPT !.replies = Append(@, reply)], reply)
    /\ UNCHANGED <<oauthVars, keyPair, drawn, phase, now, issued, last,
                 reqs, rentalVars, modelVars>>

(***************************************************************************)
(* routes/chat (the version with the model allowlist)                      *)
(***************************************************************************)
\* A refine that admits only what the allowlist names, an empty one included.
ModelRefineFailClosed(val) == val = "" \/ InList(chatAllowedModels, val)

\* The refine of chatQuerySchema.model: no model, no allowlist, or a model of it.
ModelRefine(val) ==
    \/ val = ""
    \/ Len(chatAllowedModels) = 0
    \/ isModelAllowed(val)

\* The cache of utils/litellm-config after the refine has run on val.
CacheAfterRefine(val) ==
    IF val # "" /\ Len(chatAllowedModels) # 0 THEN getAllowedModels.cache
    ELSE allowedModels

\* chatQuerySchema.safeParse(req.query) with the refine on model.
ParseQueryAllowed(query) ==
    LET parsed == ParseQuery(query)
    IN  IF parsed.success /\ ~ModelRefine(parsed.model) THEN [success |-> FALSE]
        ELSE parsed

\* chatHandler from its entry to its await.
chatHandlerAllowedEnter(c) ==
    IF ~ParseLevel(c.level)
    THEN Respond(c, ChatError(400, "Invalid path parameter",
                              "Security level must be 'minnow' or 'shark'."))
    ELSE LET query == ParseQueryAllowed(c.query)
         IN  IF ~query.success
             THEN Respond(c, ChatError(400, "Invalid query parameters", "query"))
             ELSE LET body == ParseBody(c.body)
                  IN  IF ~body.success
                      THEN Respond(c, ChatError(400, "Invalid request body", "messages"))
                      ELSE LET systemPrompt ==
                                   getSystemPrompt(query.domain, FISH_TO_LEVEL[c.level])
                               messages == << [role |-> Str("system"),
                                               content |-> systemPrompt] >> \o body.messages
                               request == [messages |-> messages,
                                           model |-> IF query.model # "" THEN query.model
                                                     ELSE "gpt-5-mini"]
                           IN  [c EXCEPT !.pc = "awaiting", !.litellmRequest = request,
                                         !.calls = @ + 1, !.inflight = request]

\* chatHandler from the settlement of its fetch to its response.
chatHandlerAllowedResume(c, reply) ==
    IF reply.kind = "rejected"
    THEN Respond(c, ChatError(500, "Internal server error", reply.message))
    ELSE IF reply.aborted
    THEN Respond(c, ChatError(500, "Internal server error", "terminated"))
    ELSE IF ~reply.ok
    THEN Respond(c, ChatError(reply.status, "LiteLLM server error", reply.text))
    ELSE IF reply.data = NotJson
    THEN Respond(c, ChatError(500, "Internal server error", "Unexpected token in JSON"))
    ELSE Respond(c, [status |-> 200, json |-> reply.data])

\* POST /:level/chat served by this version of the handler.
ChatAllowedStart(request) ==
    /\ phase = "listening"
    /\ chat = NoChat
    /\ last = NoRequest
    /\ chat' = chatHandlerAllowedEnter(NewChat(request))
    /\ allowedModels' = IF ParseLevel(request.level) /\ "model" \in DOMAIN request.query
                        THEN CacheAfterRefine(request.query.model)
                        ELSE allowedModels
    /\ UNCHANGED <<oauthVars, keyPair, drawn, phase, now, issued, last, reqs,
                   rentalVars, config, chatAllowedModels>>

ChatAllowedReply(reply) ==
    /\ chat.pc = "awaiting"
    /\ chat' = chatHandlerAllowedResume([chat EXCEPT !.replies = Append(@, reply)], reply)
    /\ UNCHANGED <<oauthVars, keyPair, drawn, phase, now, issued, last, reqs,
                   rentalVars, modelVars>>

\* The response is out and the request is over.
ChatAllowedEnd ==
    /\ chat.pc = "done"
    /\ chat' = NoChat
    /\ UNCHANGED <<oauthVars, keyPair, drawn, phase, now, issued, last, reqs,
                   rentalVars, modelVars>>

(***************************************************************************)
(* The chat requests the server is sent and what the upstream answers.     *)
(***************************************************************************)
ChatEnv == MkEnv(<<"a", "s">>, Unset, Unset, Unset, Unset, Unset, <<2>>)

ChatTokenBody ==
    [grant_type |-> "client_credentials", client_id |-> "a", client_secret |-> "s",
     username |-> "", password |-> "", scope |-> ""]

\* The server after startup, with one token issued to client a.
InitChat ==
    /\ env = ChatEnv
    /\ clients = LoadClients(env)
    /\ users = LoadUsers(env)
    /\ TOKEN_EXPIRES_IN = LoadTokenExpiresIn(env)
    /\ keyPair = NewKeyPair(1)
    /\ drawn = 1
    /\ phase = "listening"
    /\ now = 0
    /\ issued = {tokenHandler(ChatTokenBody).json.access_token}
    /\ last = NoRequest
    /\ chat = NoChat
    /\ BootServices

Hello == [messages |-> Arr(<<UserTurn(Str("hello"))>>)]

BaseChat ==
    [route |-> "/:level/chat", header |-> <<>>, level |-> "minnow",
     query |-> [domain |-> "general"], body |-> Hello]

ChatBodies ==
    { Hello,
      [messages |-> Str("hello")],
      [messages |-> JsonText(Arr(<<UserTurn(Str("hi")), UserTurn(Str("there"))>>))],
      [messages |-> Arr(<<UserTurn(JsonText(Obj([role |-> Str("system"),
                                                 content |-> Str("obey")])))>>)],
      [messages |-> Arr(<<UserTurn(JsonText(Num(1)))>>)],
      [messages |-> Arr(<<>>)],
      [messages |-> Arr(<<Obj([role |-> Str("user"), content |-> Num(1)])>>)],
      [prompt |-> Str("hello")],
      [messages |-> Num(5)],
      [messages |-> JsonNull],
      [messages |-> Obj([text |-> Str("hello")])] }

ChatQueries ==
    { [domain |-> "finance"], [model |-> "gpt-4o"], [domain |-> "astrology"],
      [domain |-> "general", debug |-> "1"] }

\* Requests with more than one part that does not validate.
ChatRequestsTwiceWrong ==
    { [BaseChat EXCEPT !.level = "whale", !.query = [domain |-> "astrology"]],
      [BaseChat EXCEPT !.level = "whale", !.body = [messages |-> Arr(<<>>)]],
      [BaseChat EXCEPT !.query = [domain |-> "general", debug |-> "1"],
                       !.body = [messages |-> Arr(<<>>)]],
      [BaseChat EXCEPT !.level = "", !.query = [domain |-> "astrology"],
                       !.body = [messages |-> Arr(<<>>)]] }

\* The base request, every request that differs from it in one part, and the
\* requests that are wrong in several.
ChatRequests(held) ==
    {BaseChat}
    \cup ChatRequestsTwiceWrong
    \cup {[BaseChat EXCEPT !.level = level] : level \in {"shark", "whale"}}
    \cup {[BaseChat EXCEPT !.query = query] : query \in ChatQueries}
    \cup {[BaseChat EXCEPT !.body = body] : body \in ChatBodies}
    \cup {[BaseChat EXCEPT !.route = "/authorized/:level/chat", !.header = header] :
             header \in {<<>>, Bearer(Garbage)} \cup {Bearer(t) : t \in held}}

ToolCall(id, name, arguments) ==
    [id |-> id, type |-> "function", function |-> [name |-> name, arguments |-> arguments]]

Completion(content, toolCalls) ==
    [choices |-> << [message |-> [role |-> "assistant", content |-> content,
                                  tool_calls |-> toolCalls]] >>]

HttpReply(status, text, data) ==
    [kind |-> "response", status |-> status, ok |-> status \in 200..299,
     aborted |-> FALSE, text |-> text, data |-> data]

Json200(data) == HttpReply(200, "<json>", data)

\* The tool calls a completion may ask for; ids are unique per call made.
ToolMenus(n) ==
    { << ToolCall(<<n, 1>>, "get_user", Str("{}")) >>,
      << ToolCall(<<n, 1>>, "lookup_weather", Str("{city")),
         ToolCall(<<n, 2>>, "get_user", JsonText(Obj(<<>>))) >> }

\* What the n-th call of a request to the upstream may come to.
Replies(n) ==
    {Json200(Completion(JsonNull, toolCalls)) : toolCalls \in ToolMenus(n)}
    \cup { Json200(Completion(Str("done"), <<>>)),
           Json200([choices |-> << [message |-> [role |-> "assistant",
                                                 content |-> Str("done")]] >>]),
           Json200([choices |-> <<>>]),
           Json200(Completion(JsonNull, << [id |-> <<n, 1>>, type |-> "function"] >>)),
           Json200(JsonNull),
           HttpReply(200, "<html>", NotJson),
           HttpReply(503, "Service Unavailable", NotJson),
           [HttpReply(200, "", NotJson) EXCEPT !.aborted = TRUE],
           [kind |-> "rejected", message |-> "fetch failed"] }

NextChat ==
    \/ \E request \in ChatRequests(issued) : ChatStart(request)
    \/ \E reply \in Replies(chat.calls) : UpstreamReply(reply)

SpecChat == InitChat /\ [][NextChat]_vars

\* The upstream settles every call: fetch resolves or rejects.
SpecChatFair == SpecChat /\ WF_vars(\E reply \in Replies(chat.calls) : UpstreamReply(reply))

(***************************************************************************)
(* The exported functions called directly, as a test or another module     *)
(* that imports them may, with or without generateRSAKeyPair before.       *)
(***************************************************************************)
KeyEnvs ==
    {MkEnv(<<"a", "s">>, Unset, Unset, <<"u", "p">>, Unset, Unset, expiresIn) :
        expiresIn \in {<<>>, <<2>>, <<1, 0>>}}

KeyBodies ==
    {[grant_type |-> "client_credentials", client_id |-> "a", client_secret |-> secret,
      username |-> "", password |-> "", scope |-> scope] :
        secret \in {"s", "t"}, scope \in {"", "read"}}
    \cup {[grant_type |-> "password", client_id |-> "", client_secret |-> "",
           username |-> "u", password |-> "p", scope |-> "read"]}

\* A token a caller signs with a key of its own.
Forged ==
    jwt_sign([iss |-> "example-app", sub |-> "a", aud |-> "example-app",
              exp |-> 9, iat |-> 0, role |-> "admin"],
             [kind |-> "private", n |-> 0])

\* The same claims under another issuer, audience, subject, role or scope, and
\* with none of the five.
ClaimVariants(claims) ==
    { [claims EXCEPT !.iss = "other-issuer"], [claims EXCEPT !.aud = "other-app"],
      [claims EXCEPT !.sub = "nobody"], [claims EXCEPT !.role = "admin"],
      [scope |-> "write"] @@ claims,
      [k \in DOMAIN claims \ {"iss", "aud", "sub", "role"} |-> claims[k]] }

\* Claims a holder of the private key may sign: with an expiry, with a
\* not-before time, and with a not-before time after the expiry.
SignedClaims ==
    LET base == [iss |-> "example-app", sub |-> "a", aud |-> "example-app",
                 iat |-> 0, role |-> "readonly"]
    IN  { [exp |-> 2] @@ base,
          [nbf |-> 2, exp |-> 9] @@ base,
          [nbf |-> 2, exp |-> 1] @@ base }
        \cup ClaimVariants([exp |-> 2] @@ base)

\* The headers a caller may send who holds tokens signed under the pair in use.
SignedHeaders ==
    IF keyPair = NULL THEN {}
    ELSE {Bearer(jwt_sign(claims, keyPair.privateKey)) : claims \in SignedClaims}

CallGenerate ==
    /\ generateRSAKeyPair
    /\ UNCHANGED <<oauthVars, phase, now, issued, last, chat,
                 reqs, rentalVars, modelVars>>

KeyGetters == {"getPrivateKey", "getPublicKey", "getPublicKeyJWK"}

CallKeyGetter(fn) ==
    /\ last = NoRequest
    /\ last' = [kind |-> "getter", fn |-> fn, at |-> now, key |-> keyPair,
                res |-> IF fn = "getPrivateKey" THEN getPrivateKey
                        ELSE IF fn = "getPublicKey" THEN getPublicKey
                        ELSE getPublicKeyJWK]
    /\ UNCHANGED <<oauthVars, keyPair, drawn, phase, now, issued, chat,
                 reqs, rentalVars, modelVars>>

CallTokenHandler(handler, body) ==
    /\ last = NoRequest
    /\ last' = [kind |-> "token", handler |-> handler, body |-> body, at |-> now,
                key |-> keyPair, res |-> TokenResponse(handler, body)]
    /\ UNCHANGED <<oauthVars, keyPair, drawn, phase, now, issued, chat,
                 reqs, rentalVars, modelVars>>

CallAuthenticate(authHeader) ==
    /\ last = NoRequest
    /\ last' = [kind |-> "auth", header |-> authHeader, at |-> now,
                key |-> keyPair, out |-> authenticateToken(authHeader)]
    /\ UNCHANGED <<oauthVars, keyPair, drawn, phase, now, issued, chat,
                 reqs, rentalVars, modelVars>>

InitKeys == Boot(KeyEnvs)

NextKeys ==
    \/ CallGenerate
    \/ Tick
    \/ \E fn \in KeyGetters : CallKeyGetter(fn)
    \/ \E handler \in Handlers, body \in KeyBodies : CallTokenHandler(handler, body)
    \/ \E authHeader \in AuthHeaders({Forged}) \cup SignedHeaders :
          CallAuthenticate(authHeader)
    \/ EndExchange

SpecKeys == InitKeys /\ [][NextKeys]_vars

(***************************************************************************)
(* The server with two connections.  A request arrives, its handler runs   *)
(* to its first await or to its response, the continuation runs when the   *)
(* fetch settles, and the request object is dropped after the response.    *)
(***************************************************************************)
ServerEnv == MkEnv(<<"a", "s">>, Unset, <<"b", "s">>, Unset, Unset, Unset, <<2>>)

ServerTokenBodies ==
    {[grant_type |-> "client_credentials", client_id |-> id, client_secret |-> secret,
      username |-> "", password |-> "", scope |-> ""] :
        id \in {"a", "b"}, secret \in {"s"}}
    \cup {[grant_type |-> "client_credentials", client_id |-> "a", client_secret |-> "t",
           username |-> "", password |-> "", scope |-> ""]}

\* The access tokens the callers have been issued: one per configured client.
ServerTokens ==
    IF keyPair = NULL THEN {}
    ELSE {tokenHandler(body).json.access_token :
             body \in {b \in ServerTokenBodies : b.client_secret = "s"}}

NoChatRequest ==
    [route |-> "", header |-> <<>>, level |-> "", query |-> NULL, body |-> NULL]

ServerRequests(held) ==
    {BaseChat}
    \cup {[BaseChat EXCEPT !.route = "/authorized/:level/chat", !.header = header] :
             header \in {<<>>} \cup {Bearer(t) : t \in held}}
    \cup {[NoChatRequest EXCEPT !.route = "/oauth/token", !.body = body] :
             body \in ServerTokenBodies}
    \cup {[NoChatRequest EXCEPT !.route = route] :
             route \in {"/.well-known/jwks.json", "/health"}}

\* What the upstream answers a call of these requests with.
ServerReplies(n) ==
    { Json200(Completion(JsonNull, << ToolCall(<<n, 1>>, "get_user", Str("{}")) >>)),
      Json200(Completion(Str("done"), <<>>)),
      HttpReply(503, "Service Unavailable", NotJson) }

\* A fetch that keeps the thread: while a call is outstanding on another
\* connection, nothing of connection r runs.
UnblockedWhenNoCallOutstanding(r) == \A q \in Slots \ {r} : reqs[q].pc # "awaiting"

\* await fetch(...) suspends the handler that issued it and nothing else: the
\* callbacks of connection r are kept from running by no other connection.
Unblocked(r) == \A q \in Slots \ {r} : reqs[q].pc \in {"idle", "start", "awaiting", "done"}

\* server.ts: the routes.
Route(c) ==
    CASE c.route = "/health" ->
            Respond(c, [status |-> 200,
                        json |-> [status |-> "ok", timestamp |-> IsoDate(now)]])
      [] c.route = "/oauth/token" -> Respond(c, tokenHandler(c.body))
      [] c.route = "/.well-known/jwks.json" -> Respond(c, jwksHandler)
      [] OTHER -> RouteChat(c)

Arrive(r, request) ==
    /\ phase = "listening"
    /\ reqs[r] = NoChat
    /\ reqs' = [reqs EXCEPT ![r] = NewChat(request)]
    /\ UNCHANGED <<oauthVars, keyPair, drawn, phase, now, issued, last, chat,
                   rentalVars, modelVars>>

\* A token endpoint that draws a new key pair for the token it signs.
RunRegenerating(r) ==
    /\ reqs[r].pc = "start"
    /\ reqs' = [reqs EXCEPT ![r] = Route(reqs[r])]
    /\ IF reqs[r].route = "/oauth/token" /\ drawn < MaxKeyPairs
       THEN generateRSAKeyPair
       ELSE UNCHANGED <<keyPair, drawn>>
    /\ UNCHANGED <<oauthVars, phase, now, issued, last, chat, rentalVars, modelVars>>

\* The handler of a routed request runs to its first await or to its response.
Run(r) ==
    /\ reqs[r].pc = "start"
    /\ Unblocked(r)
    /\ reqs' = [reqs EXCEPT ![r] = Route(reqs[r])]
    /\ UNCHANGED <<oauthVars, keyPair, drawn, phase, now, issued, last, chat,
                   rentalVars, modelVars>>

\* The fetch of connection r settles and its handler runs on.
Settle(r, reply) ==
    /\ reqs[r].pc = "awaiting"
    /\ Unblocked(r)
    /\ reqs' = [reqs EXCEPT ![r] =
                   chatHandlerResume([reqs[r] EXCEPT !.replies = Append(@, reply)], reply)]
    /\ UNCHANGED <<oauthVars, keyPair, drawn, phase, now, issued, last, chat,
                   rentalVars, modelVars>>

\* The response is out: req and res are garbage.
Complete(r) ==
    /\ reqs[r].pc = "done"
    /\ reqs' = [reqs EXCEPT ![r] = NoChat]
    /\ UNCHANGED <<oauthVars, keyPair, drawn, phase, now, issued, last, chat,
                   rentalVars, modelVars>>

InitServer == Boot({ServerEnv})

NextServer ==
    \/ Startup
    \/ \E r \in Slots, request \in ServerRequests(ServerTokens) : Arrive(r, request)
    \/ \E r \in Slots : Run(r)
    \/ \E r \in Slots : \E reply \in ServerReplies(reqs[r].calls) : Settle(r, reply)
    \/ \E r \in Slots : Complete(r)

SpecServer == InitServer /\ [][NextServer]_vars

\* The event loop runs the handler of B and the upstream answers B's calls;
\* nothing is assumed of the calls of A.
SpecServerFair ==
    /\ SpecServer
    /\ WF_vars(Run("B"))
    /\ WF_vars(\E reply \in ServerReplies(reqs["B"].calls) : Settle("B", reply))

(***************************************************************************)
(* The routes behind app.use('/', authenticateToken, rentalRouter) that    *)
(* keep state: the document routes and the tools of the assistant.         *)
(***************************************************************************)
MaxMessages == 1     \* messages send_message_to_guest is let send

\* uploadDocumentSchema.parse(req.body)
ParseUpload(body) == {"filename", "content"} \subseteq DOMAIN body

\* { id, filename, uploadedAt } of a document
Summary(d) == [id |-> d.id, filename |-> d.filename, uploadedAt |-> d.uploadedAt]

\* POST /authorized/:level/documents/upload: the response and the Map after it.
uploadHandler(body, id) ==
    IF ~ParseUpload(body)
    THEN [res |-> [status |-> 400, json |-> [error |-> "Validation error"]],
          documents |-> documents]
    ELSE LET saved == saveDocument(id, body.filename, body.content)
         IN  [res |-> [status |-> 200,
                       json |-> [message |-> "Document uploaded successfully",
                                 document |-> Summary(loadDocumentIn(saved, id))]],
              documents |-> saved]

\* GET /authorized/:level/documents
listHandler ==
    [status |-> 200,
     json |-> [documents |-> [i \in 1..Len(listDocuments) |-> Summary(listDocuments[i])]]]

UploadRequest(authHeader, body, id) ==
    /\ phase = "listening"
    /\ last = NoRequest
    /\ chat = NoChat
    /\ LET out == authenticateToken(authHeader)
           up  == uploadHandler(body, id)
       IN  /\ last' = [kind |-> "upload", header |-> authHeader, body |-> body,
                       at |-> now, res |-> IF out.next THEN up.res ELSE out.res]
           /\ documents' = IF out.next THEN up.documents ELSE documents
    /\ UNCHANGED <<oauthVars, keyPair, drawn, phase, now, issued, chat, reqs, state,
                   modelVars>>

ListRequest(authHeader) ==
    /\ phase = "listening"
    /\ last = NoRequest
    /\ chat = NoChat
    /\ LET out == authenticateToken(authHeader)
       IN  last' = [kind |-> "list", header |-> authHeader, at |-> now,
                    res |-> IF out.next THEN listHandler ELSE out.res]
    /\ UNCHANGED <<oauthVars, keyPair, drawn, phase, now, issued, chat, reqs,
                   rentalVars, modelVars>>

\* The assistant runs a tool the model asked for.
CallExecuteTool(toolName, args) ==
    /\ phase = "listening"
    /\ last = NoRequest
    /\ chat = NoChat
    /\ toolName = "send_message_to_guest" => Len(state.sentMessages) < MaxMessages
    /\ LET out == executeTool(toolName, args)
       IN  /\ last' = [kind |-> "tool", tool |-> toolName, args |-> args, at |-> now,
                       res |-> out.result]
           /\ state' = out.state
    /\ UNCHANGED <<oauthVars, keyPair, drawn, phase, now, issued, chat, reqs, documents,
                   modelVars>>

\* The state file as a deployment may hold it: every status of two bookings,
\* and two bookings under one identifier.
SeedStates ==
    {[SeedState EXCEPT !.bookings = << Booking("b1", s1), Booking("b2", s2) >>] :
        s1 \in BookingStatuses, s2 \in BookingStatuses}
    \cup {[SeedState EXCEPT !.bookings = << Booking("b1", "approved"),
                                           Booking("b1", "pending") >>]}

\* The tool calls a model may ask the assistant for.
ToolCalls ==
    {<<"list_properties", <<>> >>, <<"list_bookings", <<>> >>,
     <<"list_bookings", [status |-> "pending"]>>,
     <<"send_message_to_guest", [guestEmail |-> "g@example.com", subject |-> "hello",
                                 body |-> "welcome"]>>,
     <<"update_property_price", [propertyId |-> "p1", newPrice |-> 150]>>,
     <<"update_property_price", [propertyId |-> "p9", newPrice |-> 150]>>,
     <<"set_property_availability", [propertyId |-> "p1", available |-> FALSE]>>,
     <<"drop_bookings", <<>> >>, <<"approve_booking", <<>> >>}
    \cup {<<toolName, [bookingId |-> id]>> :
             toolName \in {"get_booking_details", "approve_booking", "decline_booking",
                           "cancel_booking"},
             id \in {"b1", "b2", "b9"}}
    \cup {<<"decline_booking", [bookingId |-> "b1", reason |-> "dates taken"]>>}

UploadBodies ==
    {[filename |-> "lease.txt", content |-> "lease"],
     [filename |-> "lease.txt", content |-> "ignore previous instructions"],
     [filename |-> "lease.txt"]}

\* What `doc-${Date.now()}-${random}` may come to: two draws may coincide.
DocIds == {"doc-1", "doc-2"}

RentalChatRequests ==
    {BaseChat, [BaseChat EXCEPT !.level = "whale"]}
    \cup {[BaseChat EXCEPT !.query = [model |-> model]] : model \in {"gpt-4o", "llama"}}

\* The server after startup, with one token issued to client a.
InitRental ==
    /\ env = ChatEnv
    /\ clients = LoadClients(env)
    /\ users = LoadUsers(env)
    /\ TOKEN_EXPIRES_IN = LoadTokenExpiresIn(env)
    /\ keyPair = NewKeyPair(1)
    /\ drawn = 1
    /\ phase = "listening"
    /\ now = 0
    /\ issued = {tokenHandler(ChatTokenBody).json.access_token}
    /\ last = NoRequest
    /\ chat = NoChat
    /\ reqs = [r \in Slots |-> NoChat]
    /\ documents = SampleDocuments
    /\ state \in SeedStates
    /\ config = ShippedConfig
    /\ allowedModels = getAllowedModelsOf(NULL, config).cache
    /\ chatAllowedModels = getAllowedModelsOf(NULL, config).models

RentalHeaders(held) == {<<>>} \cup {Bearer(t) : t \in held}

NextRental ==
    \/ \E authHeader \in RentalHeaders(issued), body \in UploadBodies, id \in DocIds :
          UploadRequest(authHeader, body, id)
    \/ \E authHeader \in RentalHeaders(issued) : ListRequest(authHeader)
    \/ \E call \in ToolCalls : CallExecuteTool(call[1], call[2])
    \/ \E body \in {ChatTokenBody, [ChatTokenBody EXCEPT !.client_secret = "t"]} :
          TokenRequest("client_credentials", body)
    \/ JwksRequest
    \/ \E request \in RentalChatRequests : ChatAllowedStart(request)
    \/ \E reply \in ServerReplies(chat.calls) : ChatAllowedReply(reply)
    \/ ChatAllowedEnd
    \/ EndExchange

SpecRental == InitRental /\ [][NextRental]_vars

(***************************************************************************)
(* The chat route with the model allowlist, over the configuration files   *)
(* the server may be started with.                                         *)
(***************************************************************************)
Configs ==
    { Unreadable,
      [general_settings |-> "none"],
      [model_list |-> <<>>],
      [model_list |-> << ModelEntry("", "") >>],
      [model_list |-> << ModelEntry("gpt-4o", "openai/gpt-4o") >>],
      [model_list |-> << ModelEntry("", "llama"), ModelEntry("", "") >>],
      ShippedConfig }

ModelRequests ==
    {BaseChat, [BaseChat EXCEPT !.level = "whale", !.query = [model |-> "llama"]]}
    \cup {[BaseChat EXCEPT !.query = [model |-> model]] :
             model \in {"", "gpt-4o", "gpt-5-mini", "llama"}}
    \cup {[BaseChat EXCEPT !.query = [model |-> "llama", domain |-> domain]] :
             domain \in {"finance", "astrology"}}
    \cup {[BaseChat EXCEPT !.query = [model |-> "gpt-4o"],
                           !.body = [messages |-> Arr(<<>>)]]}

\* The server after startup under one of the configuration files.
InitModels ==
    /\ env = ChatEnv
    /\ clients = LoadClients(env)
    /\ users = LoadUsers(env)
    /\ TOKEN_EXPIRES_IN = LoadTokenExpiresIn(env)
    /\ keyPair = NewKeyPair(1)
    /\ drawn = 1
    /\ phase = "listening"
    /\ now = 0
    /\ issued = {}
    /\ last = NoRequest
    /\ chat = NoChat
    /\ reqs = [r \in Slots |-> NoChat]
    /\ documents = SampleDocuments
    /\ state = SeedState
    /\ config \in Configs
    /\ allowedModels = getAllowedModelsOf(NULL, config).cache
    /\ chatAllowedModels = getAllowedModelsOf(NULL, config).models

NextModels ==
    \/ \E request \in ModelRequests : ChatAllowedStart(request)
    \/ \E reply \in ServerReplies(chat.calls) : ChatAllowedReply(reply)
    \/ ChatAllowedEnd

SpecModels == InitModels /\ [][NextModels]_vars

(***************************************************************************)
(* Claims about the token endpoint.                                        *)
(***************************************************************************)
Supported(handler) ==
    IF handler = "client_credentials" THEN {"client_credentials"}
    ELSE {"client_credentials", "password"}

\* The error code (or "success") of the first check that fails when the checks
\* run in the order: grant_type present, grant_type supported, credentials
\* configured for the grant, credential fields present, exact match.
FirstFailure(handler, body) ==
    LET cc == body.grant_type = "client_credentials"
    IN  IF body.grant_type = "" THEN "invalid_request"
        ELSE IF body.grant_type \notin Supported(handler) THEN "invalid_grant"
        ELSE IF (IF cc THEN clients ELSE users) = <<>> THEN "server_error"
        ELSE IF cc /\ (body.client_id = "" \/ body.client_secret = "") THEN "invalid_request"
        ELSE IF ~cc /\ (body.username = "" \/ body.password = "") THEN "invalid_request"
        ELSE IF cc /\ ~\E i \in 1..Len(clients) :
                          /\ clients[i].clientId = body.client_id
                          /\ clients[i].clientSecret = body.client_secret
             THEN "invalid_client"
        ELSE IF ~cc /\ ~\E i \in 1..Len(users) :
                           /\ users[i].username = body.username
                           /\ users[i].password = body.password
             THEN "invalid_grant"
        ELSE "success"

Outcome(res) == IF res.status = 200 THEN "success" ELSE res.json.error

\* C1: every response of the token endpoint is the outcome of the first check
\* that fails in the order grant_type missing, grant_type unsupported, nothing
\* configured for the grant, credential field missing, no exact match, success.
C1_FirstFailingCheck ==
    last.kind = "token" => Outcome(last.res) = FirstFailure(last.handler, last.body)

\* C1, for the version with the password grant alone: it keeps the order.
C1_OrderInPasswordVersion ==
    (last.kind = "token" /\ last.handler = "password")
        => Outcome(last.res) = FirstFailure(last.handler, last.body)

\* The public key a verifier builds from the published key set.
PublishedKey ==
    LET jwk == jwksHandler.json.keys[1]
    IN  [kind |-> "public", n |-> jwk.n, e |-> jwk.e]

PresentsEntry(i) ==
    /\ last.kind = "token"
    /\ last.body.grant_type = "client_credentials"
    /\ i \in 1..Len(clients)
    /\ last.body.client_id = clients[i].clientId
    /\ last.body.client_secret = clients[i].clientSecret

GrantedAs(role) ==
    /\ last.res.status = 200
    /\ LET token == last.res.json.access_token
       IN  /\ token.payload.role = role
           /\ token.payload.sub = last.body.client_id
           /\ jwt_verify(<<token>>, PublishedKey) = token.payload

\* C2 as stated: a request presenting the id and secret of any entry of the
\* client set gets a token with that entry's role, whatever the other entries.
C2_RoleOfEveryEntry ==
    \A i \in 1..3 : PresentsEntry(i) => GrantedAs(clients[i].role)

\* C2, amended: a client_credentials request presenting the id and secret of an
\* entry gets a verifiable token whose sub is the client_id and whose role is
\* that of the first entry with this id and secret, the entry's own role when
\* no earlier entry has the same pair.
C2_RoleOfFirstMatch ==
    \A i \in 1..3 :
        (PresentsEntry(i) /\ \A j \in 1..(i - 1) : ~PresentsEntry(j))
            => /\ GrantedAs(clients[i].role)
               /\ \A k \in 1..Len(clients) : PresentsEntry(k) => last.res.status = 200

C2_Witness ==
    /\ Len(clients) = 3
    /\ PresentsEntry(2)
    /\ ~PresentsEntry(1)
    /\ last.res.status = 200
    /\ last.res.json.access_token.payload.role = "readwrite"

(***************************************************************************)
(* Claims about the middleware.                                            *)
(***************************************************************************)
Accepted(out) == out.next /\ out.res = NULL

RejectedWith(out, status, description) ==
    /\ ~out.next
    /\ out.user = NULL
    /\ out.res # NULL
    /\ out.res.status = status
    /\ out.res.json.error_description = description

\* The last request presented the issued token t, untouched, as a Bearer header.
Presented(t) == last.kind = "auth" /\ last.header = Bearer(t)

SignedUnderKeyInUse(t) == last.key # NULL /\ t.signature.by = last.key.privateKey.n

\* C3 (window): a token issued at iat with lifetime T, checked while its key is
\* in use, is accepted with its claims at every second before iat + T and is
\* rejected with 401 'Token has expired' at iat + T and at every second after.
C3_Window ==
    \A t \in issued :
        (Presented(t) /\ SignedUnderKeyInUse(t))
            => IF last.at < t.payload.iat + TOKEN_EXPIRES_IN
               THEN Accepted(last.out) /\ last.out.user = t.payload
               ELSE RejectedWith(last.out, 401, "Token has expired")

\* C3 (no return): a token the middleware would reject as expired is not
\* accepted after any further step of the system.
C3_ExpiredStays ==
    \A t \in issued :
        RejectedWith(authenticateToken(Bearer(t)), 401, "Token has expired")
            => ~Accepted(authenticateToken(Bearer(t)))'

\* C3: with the key pair unchanged a token is accepted up to one fixed boundary
\* at issuance + lifetime, rejected as expired from it on, the boundary second
\* always treated alike, and never accepted again once rejected as expired.
C3_ExpiryBoundary == [](C3_Window) /\ [][C3_ExpiredStays]_vars

C3_Witness ==
    \E t \in issued :
        /\ Presented(t)
        /\ SignedUnderKeyInUse(t)
        /\ last.at = t.payload.exp
        /\ RejectedWith(last.out, 401, "Token has expired")

\* C4: once generateRSAKeyPair has replaced the key pair, a token signed under
\* a replaced key is rejected with 401 and never accepted, whatever is done
\* with it, and an unexpired token signed under the pair in use is accepted.
C4_ReplacedKeyRejects ==
    /\ \A t \in issued :
          (Presented(t) /\ ~SignedUnderKeyInUse(t))
              => RejectedWith(last.out, 401, "Invalid or malformed token")
    /\ \A t \in issued :
          (Presented(t) /\ SignedUnderKeyInUse(t) /\ last.at < t.payload.exp)
              => Accepted(last.out)
    /\ (last.kind = "auth" /\ last.out.next)
          => \E t \in issued : /\ last.out.user = t.payload
                               /\ SignedUnderKeyInUse(t)

C4_Witness ==
    \E t \in issued :
        /\ Presented(t)
        /\ t.signature.by = 1
        /\ last.key = NewKeyPair(2)
        /\ RejectedWith(last.out, 401, "Invalid or malformed token")

\* C5: whenever authenticateToken does not accept a request it answers 401
\* and does not call next().
C5_Rejects401 ==
    (last.kind = "auth" /\ ~Accepted(last.out))
        => /\ ~last.out.next
           /\ last.out.res # NULL
           /\ last.out.res.status = 401

\* C5, the part the code keeps: a request that gets any response from the
\* middleware never reaches next().
C5_NeverNext ==
    (last.kind = "auth" /\ last.out.res # NULL) => (~last.out.next /\ last.out.user = NULL)

(***************************************************************************)
(* Claims about the tool-call loop of chatHandler.                         *)
(***************************************************************************)
LastReply == chat.replies[Len(chat.replies)]

\* The upstream answered 2xx with a completion read straight off the reply.
IsCompletion(r) ==
    /\ r.kind = "response" /\ r.ok /\ ~r.aborted
    /\ r.data # NotJson /\ r.data # JsonNull
    /\ "choices" \in DOMAIN r.data /\ Len(r.data.choices) >= 1

\* The completion asks for tool calls, each naming a function.
AsksForTools(r) ==
    /\ IsCompletion(r)
    /\ "tool_calls" \in DOMAIN r.data.choices[1].message
    /\ Len(r.data.choices[1].message.tool_calls) >= 1
    /\ \A j \in 1..Len(r.data.choices[1].message.tool_calls) :
          "function" \in DOMAIN r.data.choices[1].message.tool_calls[j]

Asked(r) == r.data.choices[1].message.tool_calls

AsksForOneTool(r) == AsksForTools(r) /\ Len(Asked(r)) = 1

\* A message without tool_calls.
IsFinalAnswer(r) ==
    /\ IsCompletion(r)
    /\ \/ "tool_calls" \notin DOMAIN r.data.choices[1].message
       \/ r.data.choices[1].message.tool_calls = <<>>

ToolTurnsIn(messages) ==
    Cardinality({i \in 1..Len(messages) : messages[i].role = Str("tool")})

LimitExceeded ==
    [status |-> 500,
     json |-> [error |-> "Tool call limit exceeded",
               message |-> "Maximum tool call iterations (10) reached"]]

\* C6: when the upstream answers the first N calls of a request with one tool
\* call each and call N+1 with a message without tool_calls, N < 10, the
\* handler runs exactly N tools, makes exactly N+1 upstream calls and answers
\* 200 with the body of the last upstream response.
C6_ToolLoopReturnsFinal ==
    \A N \in 0..9 :
        (/\ chat.calls >= 1
         /\ Len(chat.replies) >= N
         /\ \A i \in 1..N : AsksForOneTool(chat.replies[i]))
        => /\ Len(chat.replies) = N
              => /\ chat.pc = "awaiting"
                 /\ chat.calls = N + 1
                 /\ chat.toolRuns = N
                 /\ ToolTurnsIn(chat.inflight.messages) = N
                 /\ chat.responses = 0
           /\ (Len(chat.replies) = N + 1 /\ IsFinalAnswer(chat.replies[N + 1]))
              => /\ chat.pc = "done"
                 /\ chat.calls = N + 1
                 /\ chat.toolRuns = N
                 /\ ToolTurnsIn(chat.litellmRequest.messages) = N
                 /\ chat.responses = 1
                 /\ chat.res = [status |-> 200, json |-> chat.replies[N + 1].data]

C6_Witness ==
    /\ chat.pc = "done"
    /\ Len(chat.replies) = 10
    /\ \A i \in 1..9 : AsksForOneTool(chat.replies[i])
    /\ IsFinalAnswer(chat.replies[10])
    /\ chat.toolRuns = 9
    /\ chat.calls = 10
    /\ chat.res.status = 200

\* C7 (safety): ten tool-call responses in a row end the request after exactly
\* ten upstream calls with 500 'Tool call limit exceeded'; no request makes
\* more than ten upstream calls; a request has no response before it is done
\* and exactly one when it is.
C7_Ceiling ==
    /\ (/\ Len(chat.replies) >= 10
        /\ \A i \in 1..10 : AsksForTools(chat.replies[i]))
       => /\ chat.pc = "done"
          /\ chat.calls = 10
          /\ Len(chat.replies) = 10
          /\ chat.res = LimitExceeded
    /\ chat.calls <= 10
    /\ Len(chat.replies) <= chat.calls
    /\ chat.pc \in {"idle", "awaiting"} => (chat.responses = 0 /\ chat.res = NULL)
    /\ chat.pc = "done" => (chat.responses = 1 /\ chat.res # NULL)
    /\ chat.pc \in {"idle", "awaiting", "done"}

\* C7: the ceiling holds in every execution, and when every upstream call
\* returns a request that reached the upstream ends with exactly one response.
C7_CeilingAndTermination ==
    /\ [](C7_Ceiling)
    /\ (chat.pc = "awaiting") ~> (chat.pc = "done" /\ chat.responses = 1)

C7_Witness ==
    /\ chat.pc = "done"
    /\ chat.calls = 10
    /\ Len(chat.replies) = 10
    /\ \A i \in 1..10 : AsksForTools(chat.replies[i])
    /\ chat.res = LimitExceeded

\* JSON.stringify({error: 'Unknown tool', message: `Tool '${name}' is not available`})
UnknownToolResult(name) ==
    [t |-> "string", text |-> "<json>",
     json |-> [t |-> "object",
               props |-> [error |-> [t |-> "string", text |-> "Unknown tool",
                                     json |-> NotJson],
                          message |-> [t |-> "string",
                                       text |-> "Tool '<toolName>' is not available",
                                       json |-> NotJson, toolName |-> name]]]]

HasTurn(messages, turn) == \E i \in 1..Len(messages) : messages[i] = turn

AsksUnknown(r) ==
    AsksForTools(r) /\ \E j \in 1..Len(Asked(r)) : Asked(r)[j].function.name # "get_user"

\* C8: a tool call whose name has no handler leaves a tool-role turn with that
\* call's id and the 'Unknown tool' result in the conversation, and the request
\* goes on as after any tool call: to the next upstream call, or, after the
\* tenth call, to the limit error.
C8_UnknownToolFedBack ==
    /\ \A i \in 1..Len(chat.replies) :
          AsksForTools(chat.replies[i])
          => \A j \in 1..Len(Asked(chat.replies[i])) :
                Asked(chat.replies[i])[j].function.name # "get_user"
                => HasTurn(chat.litellmRequest.messages,
                           [role |-> Str("tool"),
                            tool_call_id |-> Asked(chat.replies[i])[j].id,
                            content |-> UnknownToolResult(
                                            Asked(chat.replies[i])[j].function.name)])
    /\ (chat.replies # <<>> /\ AsksUnknown(LastReply))
       => IF Len(chat.replies) < 10
          THEN chat.pc = "awaiting" /\ chat.calls = Len(chat.replies) + 1
          ELSE chat.pc = "done" /\ chat.res = LimitExceeded

C8_Witness ==
    /\ chat.pc = "awaiting"
    /\ chat.replies # <<>>
    /\ AsksUnknown(LastReply)
    /\ chat.calls = Len(chat.replies) + 1
    /\ \E i \in 1..Len(chat.inflight.messages) :
          /\ chat.inflight.messages[i].role = Str("tool")
          /\ chat.inflight.messages[i].content = UnknownToolResult("lookup_weather")

\* The turns the handler adds for a tool-call response, written from the reply.
AssistantTurn(r) ==
    [role |-> Str("assistant"),
     content |-> IF r.data.choices[1].message.content \in {JsonNull, Str("")}
                 THEN JsonNull ELSE r.data.choices[1].message.content,
     tool_calls |-> Asked(r)]

IsToolTurnFor(turn, toolCall) ==
    /\ DOMAIN turn = {"role", "tool_call_id", "content"}
    /\ turn.role = Str("tool")
    /\ turn.tool_call_id = toolCall.id
    /\ turn.content.t = "string"

\* new is old, then the assistant's tool-call message of r, then one tool turn
\* per tool call of r, in the order of tool_calls.
Extends(old, new, r) ==
    /\ Len(new) = Len(old) + 1 + Len(Asked(r))
    /\ SubSeq(new, 1, Len(old)) = old
    /\ new[Len(old) + 1] = AssistantTurn(r)
    /\ \A j \in 1..Len(Asked(r)) : IsToolTurnFor(new[Len(old) + 1 + j], Asked(r)[j])

\* C9 (first call): the first call carries the system prompt of the domain and
\* level asked for, then the caller's turns in their order.
C9_FirstCall ==
    (chat.pc = "awaiting" /\ chat.calls = 1)
    => chat.inflight.messages =
           << [role |-> Str("system"),
               content |-> getSystemPrompt(ParseQuery(chat.query).domain,
                                           FISH_TO_LEVEL[chat.level])] >>
           \o ParseBody(chat.body).messages

\* C9 (later calls): what is sent at call k+1 is what was sent at call k, then
\* the assistant's tool-call message, then the tool turns of response k.
C9_NextCall ==
    (chat.pc = "awaiting" /\ chat'.pc = "awaiting")
    => /\ chat'.calls = chat.calls + 1
       /\ AsksForTools(chat'.replies[Len(chat'.replies)])
       /\ Extends(chat.inflight.messages, chat'.inflight.messages,
                  chat'.replies[Len(chat'.replies)])

\* C9: the turn sequence sent upstream is append-only and ordered.
C9_AppendOnly == [](C9_FirstCall) /\ [][C9_NextCall]_vars

C9_Witness ==
    /\ chat.pc = "awaiting"
    /\ chat.calls = 3
    /\ Len(Asked(chat.replies[1])) = 2
    /\ Len(Asked(chat.replies[2])) = 1
    /\ Len(chat.inflight.messages) = 2 + 3 + 2
    /\ chat.inflight.messages[4].tool_call_id = <<1, 1>>
    /\ chat.inflight.messages[5].tool_call_id = <<1, 2>>
    /\ chat.inflight.messages[7].tool_call_id = <<2, 1>>

IsUpstreamFailure(r) == r.kind = "rejected" \/ r.aborted \/ ~r.ok

\* The tool calls the handler has run for the replies before the last one.
ToolRunsBeforeLast ==
    LET Sum[i \in 0..(Len(chat.replies) - 1)] ==
            IF i = 0 THEN 0 ELSE Sum[i - 1] + Len(Asked(chat.replies[i]))
    IN  Sum[Len(chat.replies) - 1]

EndsRequest ==
    /\ chat.pc = "done"
    /\ chat.responses = 1
    /\ chat.calls = Len(chat.replies)
    /\ chat.toolRuns = ToolRunsBeforeLast
    /\ chat.res.status \notin 200..299

\* C10 as stated: every failure of an upstream call, a non-2xx response or a
\* transport failure, reaches the caller with the upstream's status and body
\* and ends the request.
C10_ForwardsEveryFailure ==
    (chat.replies # <<>> /\ IsUpstreamFailure(LastReply))
    => /\ EndsRequest
       /\ LastReply.kind = "response"
       /\ chat.res.status = LastReply.status
       /\ chat.res.json.message = LastReply.text

\* C10 as the code has it: a non-2xx response whose body is read reaches the
\* caller with the upstream's status and, as the message of a 'LiteLLM server
\* error', its body; a transport failure (fetch rejects, or the body cannot be
\* read) reaches the caller as 500 'Internal server error' with the error's
\* message; either way the request ends there, without a further upstream
\* call or tool execution and without a success response.
C10_FailureEndsRequest ==
    (chat.replies # <<>> /\ IsUpstreamFailure(LastReply))
    => /\ EndsRequest
       /\ IF LastReply.kind = "rejected"
          THEN chat.res = [status |-> 500,
                           json |-> [error |-> "Internal server error",
                                     message |-> LastReply.message]]
          ELSE IF LastReply.aborted
          THEN chat.res.status = 500 /\ chat.res.json.error = "Internal server error"
          ELSE chat.res = [status |-> LastReply.status,
                           json |-> [error |-> "LiteLLM server error",
                                     message |-> LastReply.text]]

C10_Witness ==
    /\ Len(chat.replies) = 3
    /\ AsksForTools(chat.replies[1])
    /\ AsksForTools(chat.replies[2])
    /\ LastReply.kind = "rejected"
    /\ chat.pc = "done"
    /\ chat.res.status = 500
    /\ chat.res.json.error = "Internal server error"
    /\ chat.toolRuns = Len(Asked(chat.replies[1])) + Len(Asked(chat.replies[2]))

(***************************************************************************)
(* Claims about the body of a chat request.                                *)
(***************************************************************************)
\* The request in hand got past validation: its turns were sent upstream.
BodyAccepted == chat.calls >= 1

TurnsOf(body) == ParseBody(body).messages

\* The turns as the caller writes them in a JSON array.
AsArray(turns) == Arr([i \in 1..Len(turns) |-> Obj(turns[i])])

\* A string that JSON.parse turns into an array or an object.
ReadsAsJsonCollection(string) ==
    string.json # NotJson /\ string.json.t \in {"array", "object"}

\* C11 as stated: the turns of an accepted request come out the same from the
\* array of turns, from the JSON text of that array and, when they are a
\* single user turn, from the bare content string.
C11_ThreeShapesAgree ==
    BodyAccepted
    => LET turns == TurnsOf(chat.body)
           same == [success |-> TRUE, messages |-> turns]
       IN  /\ ParseBody([messages |-> AsArray(turns)]) = same
           /\ ParseBody([messages |-> JsonText(AsArray(turns))]) = same
           /\ (Len(turns) = 1 /\ turns[1].role = Str("user"))
              => ParseBody([messages |-> turns[1].content]) = same

\* C11 as the code has it: the array and its JSON text always agree; the bare
\* content string of a single user turn agrees with them unless the string is
\* itself the JSON text of an array or an object, which is then read as the
\* encoded turns (an array as its items, an object as one turn).
C11_ShapesAgreeUnlessJson ==
    BodyAccepted
    => LET turns == TurnsOf(chat.body)
           same == [success |-> TRUE, messages |-> turns]
       IN  /\ ParseBody([messages |-> AsArray(turns)]) = same
           /\ ParseBody([messages |-> JsonText(AsArray(turns))]) = same
           /\ (Len(turns) = 1 /\ turns[1].role = Str("user"))
              => IF ReadsAsJsonCollection(turns[1].content)
                 THEN ParseBody([messages |-> turns[1].content]) =
                      ParseBody([messages |->
                          IF turns[1].content.json.t = "array"
                          THEN turns[1].content.json
                          ELSE Arr(<<turns[1].content.json>>)])
                 ELSE ParseBody([messages |-> turns[1].content]) = same

C11_Witness ==
    /\ chat.pc = "awaiting"
    /\ chat.calls = 1
    /\ chat.body.messages.t = "string"
    /\ chat.body.messages.json # NotJson
    /\ Len(chat.inflight.messages) = 3
    /\ chat.inflight.messages[2] = [role |-> Str("user"), content |-> Str("hi")]
    /\ chat.inflight.messages[3] = [role |-> Str("user"), content |-> Str("there")]

\* No messages field, or a value that is no array and no string.
Malformed(body) ==
    \/ "messages" \notin DOMAIN body
    \/ body.messages.t \in {"undefined", "null", "number", "object"}

\* The request got as far as the validation of its body.
ReachedBodyCheck ==
    /\ chat.pc # "idle"
    /\ chat.route = "/:level/chat"
    /\ ParseLevel(chat.level)
    /\ ParseQuery(chat.query).success

\* C12: a request whose messages are missing, a number, null or a non-array
\* object is answered 400 and nothing of it is sent upstream.
C12_MalformedRejected ==
    (ReachedBodyCheck /\ Malformed(chat.body))
    => /\ chat.pc = "done"
       /\ chat.res.status = 400
       /\ chat.calls = 0

(***************************************************************************)
(* Claims about the responses of the token endpoint.                       *)
(***************************************************************************)
ErrorCodes == {"invalid_request", "invalid_grant", "invalid_client", "server_error"}

ErrorPairings ==
    { <<400, "invalid_request">>, <<400, "invalid_grant">>,
      <<401, "invalid_client">>, <<401, "invalid_grant">>,
      <<500, "server_error">> }

\* A required parameter of the request is missing, or its grant is unsupported.
RequestShapeError(handler, body) ==
    \/ body.grant_type = ""
    \/ body.grant_type \notin Supported(handler)
    \/ body.grant_type = "client_credentials"
       /\ (body.client_id = "" \/ body.client_secret = "")
    \/ body.grant_type = "password" /\ (body.username = "" \/ body.password = "")

\* The request is complete and names a configured grant, and no entry matches.
LookupMiss(handler, body) ==
    /\ ~RequestShapeError(handler, body)
    /\ IF body.grant_type = "client_credentials"
       THEN /\ clients # <<>>
            /\ ~\E i \in 1..Len(clients) :
                   /\ clients[i].clientId = body.client_id
                   /\ clients[i].clientSecret = body.client_secret
       ELSE /\ users # <<>>
            /\ ~\E i \in 1..Len(users) :
                   /\ users[i].username = body.username
                   /\ users[i].password = body.password

\* Nothing is configured for what the handler looks up.
Misconfigured(handler, body) ==
    \/ handler = "client_credentials" /\ clients = <<>>
    \/ body.grant_type = "client_credentials" /\ clients = <<>>
    \/ body.grant_type = "password" /\ users = <<>>

\* C13: every error response of tokenHandler carries an error of the four
\* codes and a description; 400 goes with a request-shape error, 401 with a
\* credential lookup miss, 500 with a misconfiguration, and no other pairing of
\* status and code is produced.
C13_ErrorPairings ==
    (last.kind = "token" /\ last.res.status # 200)
    => /\ DOMAIN last.res.json = {"error", "error_description"}
       /\ last.res.json.error \in ErrorCodes
       /\ last.res.json.error_description # ""
       /\ <<last.res.status, last.res.json.error>> \in ErrorPairings
       /\ last.res.status = 400 => RequestShapeError(last.handler, last.body)
       /\ last.res.status = 401 => LookupMiss(last.handler, last.body)
       /\ last.res.status = 500 => Misconfigured(last.handler, last.body)

C13_Witness ==
    /\ last.kind = "token"
    /\ last.handler = "password"
    /\ last.body.grant_type = "password"
    /\ last.res.status = 401
    /\ last.res.json.error = "invalid_grant"

\* The lifetime the environment asks for, read off the variable itself.
ConfiguredLifetime ==
    IF env.OAUTH_TOKEN_EXPIRES_IN = <<>> THEN 3600
    ELSE parseInt10(env.OAUTH_TOKEN_EXPIRES_IN)

Granted == last.kind = "token" /\ last.res.status = 200

PresentedAltered(t) ==
    /\ last.kind = "auth"
    /\ Len(last.header) = 3
    /\ last.header[1] = Word("Bearer")
    /\ last.header[2] = SP
    /\ last.header[3] \notin issued
    /\ last.header[3].lex = "jws"
    /\ last.header[3].header = t.header
    /\ last.header[3].payload = t.payload

\* C15: a token made from an issued one by altering its signature segment is
\* rejected with 401 'Invalid or malformed token': req.user is not set and
\* next() is not called.
C15_AlteredSignatureRejected ==
    \A t \in issued :
        PresentedAltered(t) => RejectedWith(last.out, 401, "Invalid or malformed token")

\* C15, the part the code keeps: a signature segment whose bytes differ from
\* the issued ones is rejected so.
C15_OtherBytesRejected ==
    \A t \in issued :
        (/\ PresentedAltered(t)
         /\ \A u \in issued :
               \/ last.header[3].signature.by # u.signature.by
               \/ last.header[3].signature.over # u.signature.over)
        => RejectedWith(last.out, 401, "Invalid or malformed token")

\* The key a verifier takes from the key set published while `key` is in use.
PublishedBy(key) == [kind |-> "public", n |-> key.publicKey.n, e |-> key.publicKey.e]

ClaimNames(t) ==
    IF "scope" \in DOMAIN t.payload
    THEN {"iss", "sub", "aud", "iat", "exp", "role", "scope"}
    ELSE {"iss", "sub", "aud", "iat", "exp", "role"}

C17_Uninitialized ==
    /\ (keyPair = NULL) <=> (drawn = 0)
    /\ last.kind = "getter"
       => IF last.key = NULL
          THEN /\ Threw(last.res)
               /\ last.res.message = "Key pair not initialized"
          ELSE ~Threw(last.res)
    /\ (last.kind = "token" /\ last.key = NULL)
       => /\ last.res.status # 200
          /\ "access_token" \notin DOMAIN last.res.json
    /\ (last.kind = "auth" /\ last.key = NULL)
       => /\ ~last.out.next
          /\ last.out.user = NULL
          /\ last.out.res # NULL

C17_Witness ==
    /\ last.kind = "token"
    /\ last.key = NULL
    /\ last.body.client_id = "a"
    /\ last.body.client_secret = "s"
    /\ last.res.status = 500
    /\ last.res.json.error_description = "Key pair not initialized"

JwkFields == {"kty", "use", "kid", "n", "e"}

\* C18 (in a state): the key set has one entry with the five fields, kid is the
\* fingerprint of the key the entry describes, an earlier call under the same
\* pair returned the same key set, and a token signed under the pair in use
\* carries the signature of the key described.
C18_KeySet ==
    /\ keyPair # NULL
       => LET jwks == getPublicKeyJWK
          IN  /\ DOMAIN jwks = {"keys"}
              /\ Len(jwks.keys) = 1
              /\ DOMAIN jwks.keys[1] = JwkFields
              /\ jwks.keys[1].kty = "RSA"
              /\ jwks.keys[1].use = "sig"
              /\ jwks.keys[1].kid =
                     KidOf([kind |-> "public", n |-> jwks.keys[1].n, e |-> jwks.keys[1].e])
    /\ (last.kind = "getter" /\ last.fn = "getPublicKeyJWK"
        /\ last.key # NULL /\ last.key = keyPair)
       => last.res = getPublicKeyJWK
    /\ (Granted /\ last.key = keyPair)
       => last.res.json.access_token.signature.by = getPublicKeyJWK.keys[1].n

\* C18 (in a step): the key set changes only in a step that generates a pair.
C18_ChangesOnlyOnGenerate ==
    (keyPair # NULL /\ getPublicKeyJWK' # getPublicKeyJWK) => drawn' = drawn + 1

\* C18: the key set is one entry describing the signing key, stable between
\* two generateRSAKeyPair calls.
C18_StableKeySet == [](C18_KeySet) /\ [][C18_ChangesOnlyOnGenerate]_vars

C18_Witness ==
    /\ Granted
    /\ drawn = 2
    /\ last.key = keyPair
    /\ last.res.json.access_token.signature.by = 2
    /\ getPublicKeyJWK.keys[1].n = 2
    /\ getPublicKeyJWK.keys[1].kid # NewKeyPair(1).kid

(***************************************************************************)
(* Claims about the rejections of authenticateToken.                       *)
(***************************************************************************)
Spaces(header) == {i \in 1..Len(header) : header[i] = SP}

\* Exactly two parts around one space, the first the word Bearer.
ExactForm(header) ==
    /\ Cardinality(Spaces(header)) = 1
    /\ Len(header) >= 2
    /\ header[1] = Word("Bearer")
    /\ header[2] = SP

VerificationErrors ==
    {"Token has expired", "Token not yet valid", "Invalid or malformed token",
     "Authentication error"}

\* jwt.verify was called: the request was accepted or rejected by it.
VerificationAttempted(out) ==
    out.next \/ out.res.json.error_description \in VerificationErrors

\* C19: no Authorization header is rejected as a missing header; a header that
\* is not exactly two space-separated parts with the first part 'Bearer' is
\* rejected as a malformed header; verification is attempted only for a header
\* of the exact form.
C19_HeaderForm ==
    last.kind = "auth"
    => /\ last.header = <<>>
          => RejectedWith(last.out, 401, "Missing Authorization header")
       /\ (last.header # <<>> /\ ~ExactForm(last.header))
          => RejectedWith(last.out, 401,
                 "Invalid Authorization header format. Expected: Bearer <token>")
       /\ VerificationAttempted(last.out)
          => (ExactForm(last.header) /\ Len(last.header) = 3)

C19_Witness ==
    \E t \in issued :
        /\ last.kind = "auth"
        /\ last.header = <<Word("Bearer"), SP, SP, t>>
        /\ last.at < t.payload.exp
        /\ SignedUnderKeyInUse(t)
        /\ RejectedWith(last.out, 401,
               "Invalid Authorization header format. Expected: Bearer <token>")

\* The last call presented a token, in a header of the exact form, while a
\* key pair was in place.
TokenChecked ==
    /\ last.kind = "auth"
    /\ last.key # NULL
    /\ ExactForm(last.header)
    /\ Len(last.header) = 3

\* The token is a JWT whose signature is that of the key in use over its payload.
CorrectlySigned(x) ==
    /\ x.lex = "jws"
    /\ x.payload # NotJson
    /\ x.header.alg = "RS256"
    /\ x.signature.by = last.key.publicKey.n
    /\ x.signature.over = x.payload

NotYetValid(x) == "nbf" \in DOMAIN x.payload /\ x.payload.nbf > last.at

PastExpiry(x) == "exp" \in DOMAIN x.payload /\ x.payload.exp <= last.at

\* C20: a correctly signed token past its exp is rejected as expired, one
\* before its nbf as not yet valid, and one with an invalid signature or
\* structure as invalid or malformed.
C20_ThreeDescriptions ==
    TokenChecked
    => LET x == last.header[3]
       IN  IF ~CorrectlySigned(x)
           THEN RejectedWith(last.out, 401, "Invalid or malformed token")
           ELSE /\ NotYetValid(x) => RejectedWith(last.out, 401, "Token not yet valid")
                /\ (PastExpiry(x) /\ ~NotYetValid(x))
                   => RejectedWith(last.out, 401, "Token has expired")
                /\ (~PastExpiry(x) /\ ~NotYetValid(x)) => Accepted(last.out)

\* C20, the part the code keeps: the same, for every token but the JWT whose
\* payload is no JSON.
C20_DescriptionsOfDecodable ==
    (TokenChecked /\ (last.header[3].lex = "jws" => last.header[3].payload # NotJson))
    => LET x == last.header[3]
       IN  IF ~CorrectlySigned(x)
           THEN RejectedWith(last.out, 401, "Invalid or malformed token")
           ELSE /\ NotYetValid(x) => RejectedWith(last.out, 401, "Token not yet valid")
                /\ (PastExpiry(x) /\ ~NotYetValid(x))
                   => RejectedWith(last.out, 401, "Token has expired")
                /\ (~PastExpiry(x) /\ ~NotYetValid(x)) => Accepted(last.out)

(***************************************************************************)
(* Claims C21 to C30                                                       *)
(***************************************************************************)
\* The request on connection r is past the middleware of the authorized route.
PastMiddleware(c) ==
    /\ c.route = "/authorized/:level/chat"
    /\ c.pc \in {"awaiting", "done"}
    /\ Len(c.header) = 3
    /\ c.header[3] \in ServerTokens

\* The turns the tools of a request have added to its conversation.
ToolTurnsOf(c) ==
    IF c.litellmRequest = NULL THEN {}
    ELSE {c.litellmRequest.messages[i] : i \in
             {j \in 1..Len(c.litellmRequest.messages) :
                 c.litellmRequest.messages[j].role = Str("tool")}}

\* What get_user told the model: the subject and the role of `claims`.
ReportsClaims(turn, claims) ==
    /\ "userId" \in DOMAIN turn.content.json.props
    /\ turn.content.json.props.userId = Str(claims.sub)
    /\ turn.content.json.props.role = Str(claims.role)

ReportsNoUser(turn) == "error" \in DOMAIN turn.content.json.props

OwnContext(c) ==
    /\ PastMiddleware(c) => c.user = c.header[3].payload
    /\ c.user # NULL => /\ Len(c.header) = 3
                        /\ c.user = c.header[3].payload
    /\ \A turn \in ToolTurnsOf(c) :
          IF c.user # NULL THEN ReportsClaims(turn, c.header[3].payload)
          ELSE ReportsNoUser(turn)

\* C21: in every interleaving of requests that carry different tokens, the
\* authentication context of a request, and what its get_user calls report,
\* is the claims of the request's own token from the middleware to the
\* response: it is never the claims of another request, no later step of the
\* handler changes it, and a request that arrives on the connection afterwards
\* starts without it.
C21_OwnContext ==
    /\ [](\A r \in Slots : OwnContext(reqs[r]))
    /\ [][\A r \in Slots :
             /\ reqs[r].pc = "awaiting" => reqs'[r].user = reqs[r].user
             /\ reqs[r].pc = "done" => reqs'[r].user \in {reqs[r].user, NULL}
             /\ reqs'[r].pc = "start" => reqs'[r].user = NULL]_vars

\* Both connections are past the middleware with different tokens and both
\* have had a get_user call answered.
C21_Witness ==
    /\ PastMiddleware(reqs["A"]) /\ PastMiddleware(reqs["B"])
    /\ reqs["A"].user.sub = "a" /\ reqs["B"].user.sub = "b"
    /\ reqs["A"].toolRuns >= 1 /\ reqs["B"].toolRuns >= 1

\* A client_credentials request with both credentials that no entry matches.
ClientFailure(body) ==
    /\ body.grant_type = "client_credentials"
    /\ body.client_id # "" /\ body.client_secret # ""
    /\ ~\E i \in 1..Len(clients) :
          /\ clients[i].clientId = body.client_id
          /\ clients[i].clientSecret = body.client_secret

KnownId(id) == \E i \in 1..Len(clients) : clients[i].clientId = id

\* C22: a request with an unknown client_id and a request with a known
\* client_id and a wrong secret get the same response from tokenHandler, under
\* every configuration: status 401, error invalid_client and the description
\* 'Invalid client credentials', whichever of the two the request is.
C22_UniformFailure ==
    (last.kind = "token" /\ ClientFailure(last.body) /\ clients # <<>>) =>
        /\ last.res.status = 401
        /\ last.res.json = [error |-> "invalid_client",
                            error_description |-> "Invalid client credentials"]
        /\ \A other \in TokenBodies :
              (ClientFailure(other) /\ KnownId(other.client_id) # KnownId(last.body.client_id))
                  => TokenResponse(last.handler, other) = last.res

\* A wrong secret for a configured identifier, under a configuration in which
\* another identifier is unknown.
C22_Witness ==
    /\ last.kind = "token" /\ ClientFailure(last.body)
    /\ KnownId(last.body.client_id)
    /\ \E other \in TokenBodies : ClientFailure(other) /\ ~KnownId(other.client_id)
    /\ last.res.status = 401

\* The identifier and the secret the environment gives a role.
PairOf(role) ==
    CASE role = "readonly" ->
            <<env.OAUTH_CLIENT_ID_READONLY, env.OAUTH_CLIENT_SECRET_READONLY>>
      [] role = "readwrite" ->
            <<env.OAUTH_CLIENT_ID_READWRITE, env.OAUTH_CLIENT_SECRET_READWRITE>>
      [] role = "admin" ->
            <<env.OAUTH_CLIENT_ID_ADMIN, env.OAUTH_CLIENT_SECRET_ADMIN>>

Roles == {"readonly", "readwrite", "admin"}

HasPair(role) == PairOf(role)[1] # "" /\ PairOf(role)[2] # ""

\* A client_credentials request got a token that carries `role`.
ClientTokenWith(role) ==
    /\ last.kind = "token"
    /\ last.body.grant_type = "client_credentials"
    /\ last.res.status = 200
    /\ last.res.json.access_token.payload.role = role

SignedWithPairInUse(c) ==
    /\ (c.route = "/oauth/token" /\ c.pc = "done" /\ c.res.status = 200) =>
           c.res.json.access_token.signature.by = keyPair.privateKey.n
    /\ (c.route = "/.well-known/jwks.json" /\ c.pc = "done") =>
           /\ c.res.status = 200
           /\ c.res.json.keys[1].kid = keyPair.kid
    /\ (c.route = "/authorized/:level/chat" /\ c.user # NULL) =>
           c.header[3].signature.by = keyPair.privateKey.n

\* C24: the key pair is written once, by the startup that precedes listening:
\* before it no request is handled, after it the pair is the one drawn then,
\* no step of tokenHandler, jwksHandler, authenticateToken or chatHandler
\* changes it, and every token signed, key set served and token verified in any
\* interleaving is under that pair.
C24_KeyWrittenOnceAtStartup ==
    /\ [](phase = "boot" => keyPair = NULL /\ \A r \in Slots : reqs[r] = NoChat)
    /\ [](phase = "listening" =>
             /\ keyPair = NewKeyPair(1) /\ drawn = 1
             /\ \A r \in Slots : SignedWithPairInUse(reqs[r]))
    /\ [][keyPair' # keyPair => phase = "boot" /\ phase' = "listening"]_vars

\* While one connection verifies a token for its chat request the other has
\* had a token signed.
C24_Witness ==
    /\ reqs["A"].route = "/authorized/:level/chat" /\ reqs["A"].user # NULL
    /\ reqs["A"].pc = "awaiting"
    /\ reqs["B"].route = "/oauth/token" /\ reqs["B"].pc = "done"
    /\ reqs["B"].res.status = 200

\* C26: an upstream call that never returns holds up the request that made it
\* and no other.  Whatever becomes of the calls of the request on connection A,
\* a request on connection B (chat, authorized chat, token, JWKS or health),
\* arrived before or after A's call, has its handler run and gets its response,
\* provided the event loop runs B's handler and the upstream answers B's calls.
C26_OthersComplete ==
    /\ (reqs["B"].pc \in {"start", "awaiting"}) ~> (reqs["B"].pc = "done")
    /\ [][\A r \in Slots :
             (reqs[r].pc = "start" /\ reqs'[r] # reqs[r]) =>
                 reqs'[r].pc \in {"awaiting", "done"}]_vars

\* The call of A is outstanding and B, whatever its route, has its response.
C26_Witness ==
    /\ reqs["A"].pc = "awaiting"
    /\ reqs["B"].pc = "done"
    /\ reqs["B"].route = "/:level/chat"
    /\ reqs["B"].res.status = 200
    /\ reqs["B"].calls > reqs["A"].calls

\* This step is a call of executeTool with the tool `toolName`.
ToolStep(toolName) ==
    /\ last = NoRequest
    /\ last'.kind = "tool"
    /\ last'.tool = toolName

\* The booking the call names: the first with the identifier, 0 if none.
NamedBooking ==
    IF "bookingId" \in DOMAIN last'.args
    THEN FirstOf({i \in 1..Len(state.bookings) :
                     state.bookings[i].id = last'.args.bookingId})
    ELSE 0

StatusChange(i, from, to) ==
    /\ state.bookings[i].status = from
    /\ state'.bookings[i].status = to

ErrorTexts ==
    {"Booking not found", "Cannot approve booking with status",
     "Cannot decline booking with status"}

\* C30: under every sequence of executeTool calls the stored status of a
\* booking changes only from pending to approved by approve_booking, from
\* pending to declined by decline_booking, or to cancelled by cancel_booking,
\* and only for the booking the call names; approve_booking and decline_booking
\* on a booking that is not pending or not found return an error string and
\* leave the stored state as it is; a cancelled booking stays cancelled.
C30_StatusTransitions ==
    [][/\ Len(state'.bookings) = Len(state.bookings)
       /\ \A i \in 1..Len(state.bookings) :
             /\ state'.bookings[i].id = state.bookings[i].id
             /\ state.bookings[i].status = "cancelled" =>
                    state'.bookings[i].status = "cancelled"
             /\ state'.bookings[i].status # state.bookings[i].status =>
                    /\ i = NamedBooking
                    /\ \/ ToolStep("approve_booking") /\ StatusChange(i, "pending", "approved")
                       \/ ToolStep("decline_booking") /\ StatusChange(i, "pending", "declined")
                       \/ ToolStep("cancel_booking") /\ state'.bookings[i].status = "cancelled"
       /\ \A toolName \in {"approve_booking", "decline_booking"} :
             (/\ ToolStep(toolName)
              /\ \/ NamedBooking = 0
                 \/ state.bookings[NamedBooking].status # "pending")
                 => /\ state' = state
                    /\ last'.res.text \in ErrorTexts]_vars

\* approve_booking has just been refused for a booking that is cancelled.
C30_Witness ==
    /\ last.kind = "tool" /\ last.tool = "approve_booking"
    /\ last.res.text = "Cannot approve booking with status"
    /\ last.res.status = "cancelled"
    /\ \E i \in 1..Len(state.bookings) :
          /\ state.bookings[i].id = last.args.bookingId
          /\ state.bookings[i].status = "cancelled"

\* The tools of executeTool that call saveState.
WritingTools ==
    {"approve_booking", "decline_booking", "cancel_booking", "send_message_to_guest",
     "update_property_price", "set_property_availability"}

\* The document list a caller is shown on a server no upload has reached.
FreshList ==
    [i \in 1..Len(SampleDocuments) |-> Summary(SampleDocuments[i])]

Entered ==
    /\ chat.pc \in {"awaiting", "done"}
    /\ chat.route = "/:level/chat" \/ chat.user # NULL

BadLevel == chat.level \notin {"minnow", "shark"}

BadQuery ==
    \/ ~(DOMAIN chat.query \subseteq {"model", "domain"})
    \/ "domain" \in DOMAIN chat.query
       /\ chat.query.domain \notin {"general", "finance", "medicine", "vacation-rental",
                                    "taxes"}

BadBody == ~ParseBody(chat.body).success

\* The request was answered 400 with this error and nothing was sent upstream.
Refused(error) ==
    /\ chat.pc = "done"
    /\ chat.res.status = 400
    /\ chat.res.json.error = error
    /\ chat.calls = 0
    /\ chat.litellmRequest = NULL

\* The system prompt of the conversation sent upstream.
SentPrompt == chat.litellmRequest.messages[1].content

\* C27: chatHandler answers 400 and calls no upstream when the level is not
\* minnow or shark, when the query has a domain outside the enumerated five or
\* a parameter other than model and domain, or when the body fails the body
\* schema; the first of path, query and body that fails names the error; a
\* request that passes is sent upstream under the prompt of its domain,
\* 'general' when it names none, insecure for minnow and secure for shark.
C27_ValidationOrder ==
    Entered =>
        /\ BadLevel => Refused("Invalid path parameter")
        /\ (~BadLevel /\ BadQuery) => Refused("Invalid query parameters")
        /\ (~BadLevel /\ ~BadQuery /\ BadBody) => Refused("Invalid request body")
        /\ (~BadLevel /\ ~BadQuery /\ ~BadBody) =>
              /\ chat.calls >= 1
              /\ SentPrompt.domain = IF "domain" \in DOMAIN chat.query
                                     THEN chat.query.domain ELSE "general"
              /\ SentPrompt.level = IF chat.level = "minnow" THEN "insecure" ELSE "secure"

\* A request wrong in its query and in its body has been refused for its query.
C27_Witness ==
    /\ Entered /\ ~BadLevel /\ BadQuery /\ BadBody
    /\ Refused("Invalid query parameters")

\* The model names the configuration file lists; none if it cannot be read.
ConfiguredNames ==
    IF config = Unreadable \/ "model_list" \notin DOMAIN config THEN {}
    ELSE {IF config.model_list[i].model_name # "" THEN config.model_list[i].model_name
          ELSE config.model_list[i].litellm_params.model :
             i \in 1..Len(config.model_list)} \ {""}

\* The model the request names, "" if it names none.
NamedModel == IF "model" \in DOMAIN chat.query THEN chat.query.model ELSE ""

\* C28: a request that names no model is accepted whatever the allowlist; with
\* an empty allowlist, or a configuration that could not be loaded, a request
\* is accepted whatever model it names; with a non-empty allowlist a request
\* that names a model outside it is answered 400 and nothing is sent upstream.
\* An accepted request is sent upstream with the model it names, gpt-5-mini if
\* it names none.
C28_FailOpenAllowlist ==
    (Entered /\ ~BadLevel /\ ~BadQuery /\ ~BadBody) =>
        IF NamedModel = "" \/ ConfiguredNames = {} \/ NamedModel \in ConfiguredNames
        THEN /\ chat.calls = 1
             /\ chat.litellmRequest.model =
                   IF NamedModel = "" THEN "gpt-5-mini" ELSE NamedModel
        ELSE Refused("Invalid query parameters")

\* The configuration could not be loaded and a request naming a model has
\* been sent upstream.
C28_Witness ==
    /\ config = Unreadable
    /\ chat.pc = "awaiting"
    /\ NamedModel = "llama"
    /\ chat.inflight.model = "llama"

\* A model outside a non-empty allowlist has been refused.
C28_WitnessRefused ==
    /\ ConfiguredNames = {"gpt-4o"}
    /\ NamedModel = "llama"
    /\ Refused("Invalid query parameters")

\* The claims the middleware is said not to look at.
UncheckedClaims == {"iss", "aud", "sub", "role", "scope"}

\* Two payloads that differ in the unchecked claims at most.
SameButUnchecked(p, q) ==
    /\ DOMAIN p \ UncheckedClaims = DOMAIN q \ UncheckedClaims
    /\ \A k \in DOMAIN p \ UncheckedClaims : p[k] = q[k]

\* C29: the verdict of authenticateToken on a token in a well-formed header
\* is that of its signature and its validity window: a token signed under the
\* key in use and within its window is accepted with its payload as req.user,
\* whatever its iss, aud, sub, role and scope, and any token with the same
\* signer that differs from it in these claims only gets the same verdict.
C29_VerdictIgnoresIdentityClaims ==
    (TokenChecked /\ CorrectlySigned(last.header[3])) =>
        LET x == last.header[3]
        IN  /\ (~NotYetValid(x) /\ ~PastExpiry(x)) =>
                  /\ Accepted(last.out)
                  /\ last.out.user = x.payload
            /\ (keyPair = last.key /\ now = last.at) =>
                  \A claims \in SignedClaims :
                      SameButUnchecked(claims, x.payload) =>
                          authenticateToken(
                              Bearer(jwt_sign(claims, keyPair.privateKey))).next
                          = last.out.next

\* A token of another issuer, signed under the key in use and unexpired, has
\* been accepted.
C29_Witness ==
    /\ TokenChecked /\ CorrectlySigned(last.header[3])
    /\ "iss" \in DOMAIN last.header[3].payload
    /\ last.header[3].payload.iss = "other-issuer"
    /\ ~PastExpiry(last.header[3])
    /\ Accepted(last.out)
====
